---------------------------- MODULE Spec2Model ----------------------------
(***************************************************************************)
(* StreamGenie: the show status classifier (production_intel.py) and the   *)
(* status reconciler (show_status.py) with the collaborators it drives     *)
(* (watchlist rows, notification preferences, notification rows, e-mail).  *)
(*                                                                         *)
(* Conventions.  A Python Optional is a sequence of length 0 (None) or 1   *)
(* (the value).  A dict read with .get() is a record whose fields are      *)
(* Optionals, a missing key and a null value both reading as None.         *)
(* Strings are TLA+ strings, built with \o and searched with SubSeq.       *)
(***************************************************************************)
EXTENDS Integers, Sequences, FiniteSets, TLC

VARIABLES
    today,           \* date.today() of the classifier call, <<y, m, d>>
    tmdb_data,       \* the tmdb_data dict handed to get_enhanced_status
    use_web_search,  \* the use_web_search flag of the call
    result,          \* what get_enhanced_status returned, None before the call
    result2,         \* what a repeated call with the same arguments returned
    upstream,        \* TMDB: the raw status GET /tv/{id} answers, by tmdb_id
    shows,           \* table "shows": the set of watchlist rows
    prefs,           \* table "notification_preferences": the user's row, or None
    notifs,          \* table "notifications": the rows in insertion order
    emails,          \* the e-mails the latest handler run handed to SendGrid
    clock,           \* the time dt.datetime.now() reads
    check,           \* history: the run of update_show_status the latest handler run made
    batch,           \* the run of check_all_shows_status: its position, locals and result
    access,          \* history: the latest call of the preferences page, what it found and returned
    inbox,           \* history: the latest call of the notifications page or of a scheduled job
    sched,           \* scheduled_tasks.py: the module's _scheduler and the TaskSchedulers constructed
    runs,            \* two overlapping runs of update_show_status: their positions and locals
    auth             \* auth.py: the users' roles and the latest role change asked for

clsVars == <<today, tmdb_data, use_web_search, result, result2>>

dbVars == <<shows, prefs, notifs, emails, clock>>

recVars == <<upstream, shows, prefs, notifs, emails, clock, check>>

otherVars == <<inbox, sched, runs, auth>>

vars == <<clsVars, recVars, batch, access, otherVars>>

-----------------------------------------------------------------------------
(* Python values *)

None == <<>>

Some(v) == <<v>>

\* Python truthiness of an Optional[str]: None and "" are falsy.
TruthyStr(o) == o # None /\ o[1] # ""

\* str() of an Optional[int] inside an f-string.
FmtInt(o) == IF o = None THEN "None" ELSE ToString(o[1])

\* t in s, for strings.
Contains(s, t) == \E i \in 1..(Len(s) - Len(t) + 1) : SubSeq(s, i, i + Len(t) - 1) = t

-----------------------------------------------------------------------------
(* datetime: strptime("%Y-%m-%d"), date arithmetic, strftime("%B %d, %Y") *)

Digits == {"0", "1", "2", "3", "4", "5", "6", "7", "8", "9"}

DigitVal(c) == CHOOSE n \in 0..9 : ToString(n) = c

AllDigits(s) == \A i \in 1..Len(s) : SubSeq(s, i, i) \in Digits

RECURSIVE NumVal(_)
NumVal(s) == IF Len(s) = 0 THEN 0 ELSE 10 * NumVal(SubSeq(s, 1, Len(s) - 1)) + DigitVal(SubSeq(s, Len(s), Len(s)))

IsLeap(y) == (y % 4 = 0) /\ ((y % 100 # 0) \/ (y % 400 = 0))

DaysInMonth(y, m) == IF m = 2 THEN (IF IsLeap(y) THEN 29 ELSE 28) ELSE IF m \in {4, 6, 9, 11} THEN 30 ELSE 31

RECURSIVE DaysBeforeMonth(_, _)
DaysBeforeMonth(y, m) == IF m = 1 THEN 0 ELSE DaysBeforeMonth(y, m - 1) + DaysInMonth(y, m - 1)

DaysBeforeYear(y) == (y - 1) * 365 + ((y - 1) \div 4) - ((y - 1) \div 100) + ((y - 1) \div 400)

\* date.toordinal()
ToOrdinal(dt) == DaysBeforeYear(dt[1]) + DaysBeforeMonth(dt[1], dt[2]) + dt[3]

\* The one- or two-digit fields %m and %d accept ("3", "03", and " 3" for %d).
FieldOk(s, lo, hi, blank) ==
    /\ Len(s) \in {1, 2}
    /\ \/ AllDigits(s) /\ NumVal(s) \in lo..hi
       \/ blank /\ Len(s) = 2 /\ SubSeq(s, 1, 1) = " " /\ SubSeq(s, 2, 2) \in (Digits \ {"0"})

FieldVal(s) == IF SubSeq(s, 1, 1) = " " THEN NumVal(SubSeq(s, 2, 2)) ELSE NumVal(s)

\* The position of the second "-" of "YYYY-M..-D..", 0 when there is none.
SecondDash(s) == IF Len(s) >= 7 /\ SubSeq(s, 7, 7) = "-" THEN 7 ELSE IF Len(s) >= 8 /\ SubSeq(s, 8, 8) = "-" THEN 8 ELSE 0

\* datetime.strptime(date_str, "%Y-%m-%d").date(): Some(<<y, m, d>>), or None
\* where strptime raises ValueError (no match, or no such day).
StrpDate(s) ==
    IF Len(s) < 8 \/ ~AllDigits(SubSeq(s, 1, 4)) \/ SubSeq(s, 5, 5) # "-" \/ SecondDash(s) = 0
    THEN None
    ELSE LET k  == SecondDash(s)
             ms == SubSeq(s, 6, k - 1)
             ds == SubSeq(s, k + 1, Len(s))
             y  == NumVal(SubSeq(s, 1, 4))
         IN  IF FieldOk(ms, 1, 12, FALSE) /\ FieldOk(ds, 1, 31, TRUE) /\ y >= 1
             THEN (IF FieldVal(ds) <= DaysInMonth(y, FieldVal(ms)) THEN Some(<<y, FieldVal(ms), FieldVal(ds)>>) ELSE None)
             ELSE None

MonthName == <<"January", "February", "March", "April", "May", "June", "July", "August", "September", "October", "November", "December">>

Pad2(n) == IF n < 10 THEN "0" \o ToString(n) ELSE ToString(n)

\* date_obj.strftime("%B %d, %Y")
StrfDate(dt) == MonthName[dt[2]] \o " " \o Pad2(dt[3]) \o ", " \o ToString(dt[1])

\* _format_date: the formatted date, the string itself when it does not parse.
_format_date(date_str) == IF StrpDate(date_str) = None THEN date_str ELSE StrfDate(StrpDate(date_str)[1])

\* delta.days / 365.25 is kept exact as the fraction (4 * days) / YearQuarterDays.
YearQuarterDays == 1461

\* Mutant: a date that does not parse counts as infinitely old.
_years_since_unparsed_old(date_str, now) == IF StrpDate(date_str) = None THEN 4000000 ELSE 4 * (ToOrdinal(now) - ToOrdinal(StrpDate(date_str)[1]))

\* _years_since, as the numerator of that fraction; 0.0 when the string does not parse.
_years_since(date_str, now) == IF StrpDate(date_str) = None THEN 0 ELSE 4 * (ToOrdinal(now) - ToOrdinal(StrpDate(date_str)[1]))

\* f"{years_since:.0f}": the nearest integer (no tie exists, YearQuarterDays is odd).
FmtYears(q) == IF 2 * (q % YearQuarterDays) < YearQuarterDays THEN ToString(q \div YearQuarterDays) ELSE ToString((q \div YearQuarterDays) + 1)

-----------------------------------------------------------------------------
(* production_intel.py: the classifier *)

\* dict.get(key) on an Optional dict the code has already found truthy.
Get(d, key) == d[1][key]

\* Lines 88-91 and 94-97: the results for status "Ended" and "Canceled".
EndedResult(last_air_date) ==
    IF TruthyStr(last_air_date)
    THEN <<"ENDED", "high", "Series concluded. Final episode aired " \o _format_date(last_air_date[1]) \o ".">>
    ELSE <<"ENDED", "high", "Series has concluded.">>

CanceledResult(last_air_date) ==
    IF TruthyStr(last_air_date)
    THEN <<"CANCELED", "high", "Canceled. Last episode aired " \o _format_date(last_air_date[1]) \o ".">>
    ELSE <<"CANCELED", "high", "Show has been canceled.">>

\* Lines 100-105: `if next_episode:` and, inside it, `if air_date:`.
HasScheduledEpisode(next_episode) == next_episode # None /\ TruthyStr(Get(next_episode, "air_date"))

\* Mutant: the air date embedded as supplied, not formatted.
ScheduledResult_raw_date(next_episode) ==
    <<"SCHEDULED", "high",
      "Next episode: S" \o FmtInt(Get(next_episode, "season_number")) \o "E" \o FmtInt(Get(next_episode, "episode_number"))
          \o " on " \o Get(next_episode, "air_date")[1]>>

\* Lines 106-111.
ScheduledResult(next_episode) ==
    <<"SCHEDULED", "high",
      "Next episode: S" \o FmtInt(Get(next_episode, "season_number")) \o "E" \o FmtInt(Get(next_episode, "episode_number"))
          \o " on " \o _format_date(Get(next_episode, "air_date")[1])>>

\* Lines 115-119.
InProductionHigh == <<"IN PRODUCTION", "high", "Currently in production. New season confirmed but air date not announced.">>

\* Mutant: the first threshold at 2 years instead of 1.
ReturningResult_two_years(last_air_date, now) ==
    IF TruthyStr(last_air_date)
    THEN LET years_since == _years_since(last_air_date[1], now)
         IN  IF years_since < 2 * YearQuarterDays THEN
                 <<"RETURNING SOON", "medium",
                   "Show is active. Last aired " \o _format_date(last_air_date[1]) \o ". New season expected.">>
             ELSE IF years_since < 3 * YearQuarterDays THEN
                 <<"UNCERTAIN", "low",
                   "Marked as returning series, but last aired " \o _format_date(last_air_date[1])
                       \o " (" \o FmtYears(years_since) \o " years ago). Status unclear.">>
             ELSE
                 <<"ON HIATUS", "low",
                   "On extended hiatus. Last aired " \o _format_date(last_air_date[1])
                       \o " (" \o FmtYears(years_since) \o " years ago).">>
    ELSE <<"RETURNING SOON", "medium", "Marked as returning series. No air date announced.">>

\* Lines 123-145: status "Returning Series", not in production.
ReturningResult(last_air_date, now) ==
    IF TruthyStr(last_air_date)
    THEN LET years_since == _years_since(last_air_date[1], now)
         IN  IF years_since < 1 * YearQuarterDays THEN
                 <<"RETURNING SOON", "medium",
                   "Show is active. Last aired " \o _format_date(last_air_date[1]) \o ". New season expected.">>
             ELSE IF years_since < 3 * YearQuarterDays THEN
                 <<"UNCERTAIN", "low",
                   "Marked as returning series, but last aired " \o _format_date(last_air_date[1])
                       \o " (" \o FmtYears(years_since) \o " years ago). Status unclear.">>
             ELSE
                 <<"ON HIATUS", "low",
                   "On extended hiatus. Last aired " \o _format_date(last_air_date[1])
                       \o " (" \o FmtYears(years_since) \o " years ago).">>
    ELSE <<"RETURNING SOON", "medium", "Marked as returning series. No air date announced.">>

\* Lines 149-153, 157-161, 165-169.
InProductionMedium == <<"IN PRODUCTION", "medium", "Currently in production. Status and air date to be confirmed.">>

RenewedResult == <<"RENEWED", "medium", "Show has been renewed. Production has not yet started.">>

PilotResult == <<"PILOT", "high", "Pilot episode available. Series pickup not yet confirmed.">>

\* Mutant: the fallback under a category of its own.
FallbackResult_unknown == <<"UNKNOWN", "low", "Status uncertain. Check TMDB or search online for production news.">>

\* Lines 189-193: the fallback.
FallbackResult == <<"UNCERTAIN", "low", "Status uncertain. Check TMDB or search online for production news.">>

\* Mutant: the 5-year test ahead of the 10-year test.
OldShowResult_five_first(last_air_date, now) ==
    IF TruthyStr(last_air_date) /\ _years_since(last_air_date[1], now) > 5 * YearQuarterDays THEN
        <<"ON HIATUS", "medium",
          "On extended hiatus. Last aired " \o _format_date(last_air_date[1])
              \o " (" \o FmtYears(_years_since(last_air_date[1], now)) \o " years ago).">>
    ELSE IF TruthyStr(last_air_date) /\ _years_since(last_air_date[1], now) > 10 * YearQuarterDays THEN
        <<"LEGACY", "high",
          "Classic show. Last aired " \o _format_date(last_air_date[1])
              \o " (" \o FmtYears(_years_since(last_air_date[1], now)) \o " years ago). No new episodes expected.">>
    ELSE FallbackResult

\* Lines 172-193: the old-show rule, falling through to the fallback.
OldShowResult(last_air_date, now) ==
    IF TruthyStr(last_air_date) /\ _years_since(last_air_date[1], now) > 10 * YearQuarterDays THEN
        <<"LEGACY", "high",
          "Classic show. Last aired " \o _format_date(last_air_date[1])
              \o " (" \o FmtYears(_years_since(last_air_date[1], now)) \o " years ago). No new episodes expected.">>
    ELSE IF TruthyStr(last_air_date) /\ _years_since(last_air_date[1], now) > 5 * YearQuarterDays THEN
        <<"ON HIATUS", "medium",
          "On extended hiatus. Last aired " \o _format_date(last_air_date[1])
              \o " (" \o FmtYears(_years_since(last_air_date[1], now)) \o " years ago).">>
    ELSE FallbackResult

\* Mutant: the scheduled-episode rule ahead of the Ended and Canceled rules.
_categorize_status_scheduled_first(status, in_production, next_episode, last_air_date, last_episode, show_title, now) ==
    IF HasScheduledEpisode(next_episode) THEN ScheduledResult(next_episode)
    ELSE IF status = "Ended" THEN EndedResult(last_air_date)
    ELSE IF status = "Canceled" THEN CanceledResult(last_air_date)
    ELSE IF in_production /\ status = "Returning Series" THEN InProductionHigh
    ELSE IF status = "Returning Series" THEN ReturningResult(last_air_date, now)
    ELSE IF in_production THEN InProductionMedium
    ELSE IF status = "Planned" THEN RenewedResult
    ELSE IF status = "Pilot" THEN PilotResult
    ELSE OldShowResult(last_air_date, now)

\* Mutant: the Planned and Pilot rules ahead of the in-production rule.
_categorize_status_planned_first(status, in_production, next_episode, last_air_date, last_episode, show_title, now) ==
    IF status = "Ended" THEN EndedResult(last_air_date)
    ELSE IF status = "Canceled" THEN CanceledResult(last_air_date)
    ELSE IF HasScheduledEpisode(next_episode) THEN ScheduledResult(next_episode)
    ELSE IF in_production /\ status = "Returning Series" THEN InProductionHigh
    ELSE IF status = "Returning Series" THEN ReturningResult(last_air_date, now)
    ELSE IF status = "Planned" THEN RenewedResult
    ELSE IF status = "Pilot" THEN PilotResult
    ELSE IF in_production THEN InProductionMedium
    ELSE OldShowResult(last_air_date, now)

\* _categorize_status: <<category, confidence, message>>, the first rule that
\* matches.  last_episode and show_title are parameters the body never reads;
\* now is date.today().
_categorize_status(status, in_production, next_episode, last_air_date, last_episode, show_title, now) ==
    IF status = "Ended" THEN EndedResult(last_air_date)
    ELSE IF status = "Canceled" THEN CanceledResult(last_air_date)
    ELSE IF HasScheduledEpisode(next_episode) THEN ScheduledResult(next_episode)
    ELSE IF in_production /\ status = "Returning Series" THEN InProductionHigh
    ELSE IF status = "Returning Series" THEN ReturningResult(last_air_date, now)
    ELSE IF in_production THEN InProductionMedium
    ELSE IF status = "Planned" THEN RenewedResult
    ELSE IF status = "Pilot" THEN PilotResult
    ELSE OldShowResult(last_air_date, now)

\* _search_production_news: a stub that always returns None.
_search_production_news(show_title, data) == None

\* Mutant: anything short of high confidence needs research.
NeedsResearch_not_high(confidence, status) == confidence # "high" /\ status \notin {"Ended", "Canceled"}

\* needs_research of get_enhanced_status.
NeedsResearch(confidence, status) == confidence = "low" /\ status \notin {"Ended", "Canceled"}

\* get_enhanced_status: the result dict.
get_enhanced_status(show_title, tmdb_id, data, web, now) ==
    LET cat == _categorize_status(data.status, data.in_production, data.next_episode_to_air,
                                  data.last_air_date, data.last_episode_to_air, show_title, now)
        needs == NeedsResearch(cat[2], data.status)
        intel == IF web /\ needs THEN _search_production_news(show_title, data) ELSE None
    IN  [category         |-> cat[1],
         confidence       |-> cat[2],
         message          |-> IF intel # None THEN cat[3] \o "\n\n" \o intel[1] ELSE cat[3],
         tmdb_status      |-> data.status,
         in_production    |-> data.in_production,
         has_next_episode |-> data.next_episode_to_air # None,
         last_air_date    |-> data.last_air_date,
         needs_research   |-> needs]

-----------------------------------------------------------------------------
(* preferences.py *)

\* The defaults of create_default_preferences (lines 51-67).
DefaultPreferences ==
    [email_new_episodes |-> TRUE, email_weekly_preview |-> TRUE, email_series_finale |-> TRUE,
     email_series_cancelled |-> TRUE, email_show_added |-> FALSE,
     inapp_new_episodes |-> TRUE, inapp_weekly_preview |-> TRUE, inapp_series_finale |-> TRUE,
     inapp_series_cancelled |-> TRUE, inapp_show_added |-> TRUE,
     daily_reminder_time |-> "08:00:00", weekly_preview_day |-> "Sunday",
     weekly_preview_time |-> "18:00:00", timezone |-> "America/New_York"]

\* get_user_preferences: the stored row, None when there is none or when the
\* query raises (the exception is caught and None returned).
get_user_preferences(P, user_id, fails) == IF fails THEN None ELSE P[user_id]

\* create_default_preferences: inserts the defaults and returns them.  user_id
\* is taken to be unique in the table: an insert for a user who has a row
\* raises, and the except branch returns the defaults without storing them.
create_default_preferences(P, user_id) ==
    [prefs |-> IF P[user_id] = None THEN [P EXCEPT ![user_id] = Some(DefaultPreferences)] ELSE P,
     value |-> DefaultPreferences]

\* get_or_create_preferences
get_or_create_preferences(P, user_id, fails) ==
    IF get_user_preferences(P, user_id, fails) # None
    THEN [prefs |-> P, value |-> get_user_preferences(P, user_id, fails)[1]]
    ELSE create_default_preferences(P, user_id)

\* dict.update: the keys of updates replace the row's.
Merged(row, updates) == [k \in DOMAIN row |-> IF k \in DOMAIN updates THEN updates[k] ELSE row[k]]

\* update_preferences (lines 100-151).  No row read: the defaults merged with
\* the updates are inserted, which raises when the user has a row after all
\* (the read had failed) or when the insert fails.  A row read: the updates are
\* written into it.  Any exception is caught and False returned.
update_preferences(P, user_id, updates, fault) ==
    LET existing == get_user_preferences(P, user_id, fault = "prefs_read")
    IN  IF existing = None THEN
            IF P[user_id] = None /\ fault # "prefs_write"
            THEN [prefs |-> [P EXCEPT ![user_id] = Some(Merged(DefaultPreferences, updates))], ret |-> TRUE]
            ELSE [prefs |-> P, ret |-> FALSE]
        ELSE IF fault = "prefs_write" THEN [prefs |-> P, ret |-> FALSE]
        ELSE [prefs |-> [P EXCEPT ![user_id] = Some(Merged(existing[1], updates))], ret |-> TRUE]

\* type_mapping of should_send_email; None for a type it does not list.
EmailPrefKey(notification_type) ==
    CASE notification_type \in {"new_episode", "new_episodes"} -> Some("email_new_episodes")
      [] notification_type = "weekly_preview" -> Some("email_weekly_preview")
      [] notification_type = "series_finale" -> Some("email_series_finale")
      [] notification_type = "series_cancelled" -> Some("email_series_cancelled")
      [] notification_type \in {"show_added", "status_change"} -> Some("email_show_added")
      [] OTHER -> None

\* type_mapping of should_create_inapp_notification.
InappPrefKey(notification_type) ==
    CASE notification_type \in {"new_episode", "new_episodes"} -> Some("inapp_new_episodes")
      [] notification_type = "weekly_preview" -> Some("inapp_weekly_preview")
      [] notification_type = "series_finale" -> Some("inapp_series_finale")
      [] notification_type = "series_cancelled" -> Some("inapp_series_cancelled")
      [] notification_type \in {"show_added", "status_change"} -> Some("inapp_show_added")
      [] OTHER -> None

\* should_send_email: False for an unknown type.
should_send_email(P, user_id, notification_type, fails) ==
    LET got == get_or_create_preferences(P, user_id, fails)
    IN  [prefs |-> got.prefs,
         value |-> IF EmailPrefKey(notification_type) = None THEN FALSE ELSE got.value[EmailPrefKey(notification_type)[1]]]

\* should_create_inapp_notification: True for an unknown type.
should_create_inapp_notification(P, user_id, notification_type, fails) ==
    LET got == get_or_create_preferences(P, user_id, fails)
    IN  [prefs |-> got.prefs,
         value |-> IF InappPrefKey(notification_type) = None THEN TRUE ELSE got.value[InappPrefKey(notification_type)[1]]]

-----------------------------------------------------------------------------
(* notifications.py *)

\* The store as a handler run finds it and threads it through its calls.
Store == [shows |-> shows, prefs |-> prefs, notifs |-> notifs, emails |-> {}, clock |-> clock]

\* create_notification.  fault names the collaborator call that fails while
\* the handler runs ("none" when none does).  Returns the store it leaves and
\* its return value.
create_notification(st, user_id, notification_type, title, message, related_show_id, related_show_title, send_email, fault) ==
    LET inapp == should_create_inapp_notification(st.prefs, user_id, notification_type, fault = "prefs_read")
        mail  == IF send_email
                 THEN should_send_email(inapp.prefs, user_id, notification_type, fault = "prefs_read")
                 ELSE [prefs |-> inapp.prefs, value |-> FALSE]
        row   == [user_id |-> user_id, notification_type |-> notification_type, title |-> title,
                  message |-> message, related_show_id |-> related_show_id,
                  related_show_title |-> related_show_title, sent_email |-> mail.value, is_read |-> FALSE]
    IN  IF ~inapp.value /\ ~send_email THEN
            [st |-> [st EXCEPT !.prefs = inapp.prefs], ret |-> TRUE]
        ELSE IF inapp.value /\ fault = "notification_insert" THEN
            [st |-> [st EXCEPT !.prefs = mail.prefs], ret |-> FALSE]
        ELSE
            [st |-> [st EXCEPT !.prefs = mail.prefs,
                               !.notifs = IF inapp.value THEN Append(@, row) ELSE @,
                               !.emails = IF mail.value /\ fault # "send_email"
                                          THEN @ \cup {[user_id |-> user_id, subject |-> "StreamGenie: " \o title]}
                                          ELSE @],
             ret |-> TRUE]

\* The arguments of a create_notification call, as the history keeps them.
Call(user_id, notification_type, title, message, related_show_id, related_show_title, send_email) ==
    [user_id |-> user_id, notification_type |-> notification_type, title |-> title, message |-> message,
     related_show_id |-> related_show_id, related_show_title |-> related_show_title, send_email |-> send_email]

\* notify_show_status_change (lines 360-384): one create_notification call of
\* type status_change.
StatusMessage(show_title, new_status) ==
    CASE new_status = "available" -> show_title \o " is now available on your streaming service!"
      [] new_status = "unavailable" -> show_title \o " is no longer available on your streaming service."
      [] new_status = "added" -> show_title \o " has been added to your watchlist."
      [] OTHER -> "Status changed for " \o show_title

notify_show_status_change(st, user_id, show_title, show_id, new_status, send_email, fault) ==
    [st    |-> create_notification(st, user_id, "status_change", "Show Status Changed", StatusMessage(show_title, new_status),
                                   Some(show_id), Some(show_title), send_email, fault).st,
     calls |-> <<Call(user_id, "status_change", "Show Status Changed", StatusMessage(show_title, new_status),
                      Some(show_id), Some(show_title), send_email)>>]

-----------------------------------------------------------------------------
(* show_status.py *)

\* The raw status strings show_status.py names, "Unknown" being fetch's default.
Statuses == {"Returning Series", "Ended", "Canceled", "In Production", "Planned", "Pilot", "Unknown"}

Users == {"u1", "u2"}

TmdbIds == {1396, 66732}

Providers == {"Netflix", "Hulu"}

\* What TMDB answers for a show besides its status (fetch_show_status, lines
\* 42-53); the status itself is upstream[tmdb_id].
TmdbDetails(tmdb_id) ==
    IF tmdb_id = 1396
    THEN [name |-> "Breaking Bad", last_air_date |-> Some("2013-09-29"), number_of_seasons |-> 5,
          last_episode_to_air |-> Some([season_number |-> Some(5), episode_number |-> Some(16)])]
    ELSE [name |-> "Stranger Things", last_air_date |-> None, number_of_seasons |-> 1,
          last_episode_to_air |-> None]

\* The title the callers hand over: the row's title, which is TMDB's name.
Title(tmdb_id) == TmdbDetails(tmdb_id).name

\* fetch_show_status: the status_info dict, None when the request fails.
fetch_show_status(up, tmdb_id, fault) ==
    IF fault = "fetch" THEN None
    ELSE Some([tmdb_id |-> tmdb_id, name |-> TmdbDetails(tmdb_id).name, status |-> up[tmdb_id],
               last_air_date |-> TmdbDetails(tmdb_id).last_air_date,
               number_of_seasons |-> TmdbDetails(tmdb_id).number_of_seasons,
               last_episode_to_air |-> TmdbDetails(tmdb_id).last_episode_to_air])

\* str() of an Optional[str] inside an f-string.
FmtStr(o) == IF o = None THEN "None" ELSE o[1]

\* Python truthiness of an Optional[int].
TruthyInt(o) == o # None /\ o[1] # 0

\* Lines 140-150: the message of the series finale notification.
FinaleMessage(show_title, status_info) ==
    LET last_episode == status_info.last_episode_to_air
        base == show_title \o " has ended. The final episode aired on " \o FmtStr(status_info.last_air_date) \o "."
    IN  IF last_episode # None /\ TruthyInt(Get(last_episode, "season_number")) /\ TruthyInt(Get(last_episode, "episode_number"))
        THEN base \o " (S" \o FmtInt(Get(last_episode, "season_number")) \o "E" \o FmtInt(Get(last_episode, "episode_number")) \o ")"
        ELSE base

\* Lines 167-170: the message of the cancellation notification.
CanceledMessage(show_title, status_info) ==
    show_title \o " has been canceled after " \o ToString(status_info.number_of_seasons) \o " season"
        \o (IF status_info.number_of_seasons # 1 THEN "s" ELSE "") \o "."

\* notify_status_change with the finale's notification type copied into the
\* cancellation branch.
notify_status_change_one_type(st, user_id, tmdb_id, show_title, old_status, new_status, status_info, fault) ==
    IF new_status = "Ended" THEN
        [st    |-> create_notification(st, user_id, "series_finale", "Series Finale: " \o show_title,
                                       FinaleMessage(show_title, status_info), Some(tmdb_id), Some(show_title), TRUE, fault).st,
         calls |-> <<Call(user_id, "series_finale", "Series Finale: " \o show_title,
                          FinaleMessage(show_title, status_info), Some(tmdb_id), Some(show_title), TRUE)>>]
    ELSE IF new_status = "Canceled" THEN
        [st    |-> create_notification(st, user_id, "series_finale", "Show Canceled: " \o show_title,
                                       CanceledMessage(show_title, status_info), Some(tmdb_id), Some(show_title), TRUE, fault).st,
         calls |-> <<Call(user_id, "series_finale", "Show Canceled: " \o show_title,
                          CanceledMessage(show_title, status_info), Some(tmdb_id), Some(show_title), TRUE)>>]
    ELSE [st |-> st, calls |-> <<>>]

\* notify_status_change: the store it leaves and the create_notification
\* calls it made.  The titles' leading emoji are left out.
notify_status_change(st, user_id, tmdb_id, show_title, old_status, new_status, status_info, fault) ==
    IF new_status = "Ended" THEN
        [st    |-> create_notification(st, user_id, "series_finale", "Series Finale: " \o show_title,
                                       FinaleMessage(show_title, status_info), Some(tmdb_id), Some(show_title), TRUE, fault).st,
         calls |-> <<Call(user_id, "series_finale", "Series Finale: " \o show_title,
                          FinaleMessage(show_title, status_info), Some(tmdb_id), Some(show_title), TRUE)>>]
    ELSE IF new_status = "Canceled" THEN
        [st    |-> create_notification(st, user_id, "series_cancelled", "Show Canceled: " \o show_title,
                                       CanceledMessage(show_title, status_info), Some(tmdb_id), Some(show_title), TRUE, fault).st,
         calls |-> <<Call(user_id, "series_cancelled", "Show Canceled: " \o show_title,
                          CanceledMessage(show_title, status_info), Some(tmdb_id), Some(show_title), TRUE)>>]
    ELSE [st |-> st, calls |-> <<>>]

\* The rows .eq("user_id", user_id).eq("tmdb_id", tmdb_id) selects.
MatchingRows(S, user_id, tmdb_id) == {r \in S : r.user_id = user_id /\ r.tmdb_id = tmdb_id}

\* The rows that may come first in result.data: the query has no ORDER BY.
NoRow == [user_id |-> "", tmdb_id |-> 0, provider_name |-> "", title |-> "", region |-> "", on_provider |-> FALSE,
          show_status |-> None, last_status_check |-> None]

FirstRows(S, user_id, tmdb_id) == IF MatchingRows(S, user_id, tmdb_id) = {} THEN {NoRow} ELSE MatchingRows(S, user_id, tmdb_id)

\* Line 92.
StatusChanged(old_status, new_status) == old_status # Some(new_status)

\* The update with "show_status" left out of the payload.
WriteStatus_stamp_only(S, user_id, tmdb_id, new_status, now) ==
    {IF r \in MatchingRows(S, user_id, tmdb_id)
     THEN [r EXCEPT !.last_status_check = Some(now)]
     ELSE r : r \in S}

\* Mutant: rows that already hold the fetched status are left alone.
WriteStatus_only_changed(S, user_id, tmdb_id, new_status, now) ==
    {IF r \in MatchingRows(S, user_id, tmdb_id) /\ r.show_status # Some(new_status)
     THEN [r EXCEPT !.show_status = Some(new_status), !.last_status_check = Some(now)]
     ELSE r : r \in S}

\* Mutant: the update filtered by tmdb_id alone, the filter on user_id left out.
WriteStatus_every_user(S, user_id, tmdb_id, new_status, now) ==
    {IF r.tmdb_id = tmdb_id
     THEN [r EXCEPT !.show_status = Some(new_status), !.last_status_check = Some(now)]
     ELSE r : r \in S}

\* Lines 95-102: the update of show_status and last_status_check.
WriteStatus(S, user_id, tmdb_id, new_status, now) ==
    {IF r \in MatchingRows(S, user_id, tmdb_id)
     THEN [r EXCEPT !.show_status = Some(new_status), !.last_status_check = Some(now)]
     ELSE r : r \in S}

\* Line 107 without "status_changed and".
ShouldNotify_every_check(status_changed, new_status) == new_status \in {"Ended", "Canceled"}

\* Line 107.
ShouldNotify(status_changed, new_status) == status_changed /\ new_status \in {"Ended", "Canceled"}

\* What a run of update_show_status leaves in the history: the caller it ran
\* for, whose entry it checked, the status it fetched, the stored status it
\* read, the create_notification calls it made and what it returned.
CheckRecord(via, user_id, tmdb_id, fetched, old, calls, ret) ==
    [via |-> via, user_id |-> user_id, tmdb_id |-> tmdb_id, fetched |-> fetched, old |-> old, calls |-> calls, ret |-> ret]

\* Mutant: a failed fetch still stamps last_status_check before returning None.
update_show_status_stamps_failure(st, up, user_id, tmdb_id, show_title, fault, first, via) ==
    LET status_info == fetch_show_status(up, tmdb_id, fault)
        new_status  == status_info[1].status
        old_status  == first.show_status
        stamped     == [st EXCEPT !.shows = {IF r \in MatchingRows(st.shows, user_id, tmdb_id)
                                              THEN [r EXCEPT !.last_status_check = Some(st.clock)]
                                              ELSE r : r \in st.shows}]
        written     == [st EXCEPT !.shows = WriteStatus(st.shows, user_id, tmdb_id, new_status, st.clock)]
        notified    == notify_status_change(written, user_id, tmdb_id, show_title, old_status, new_status, status_info[1], fault)
    IN  IF status_info = None THEN
            [st |-> stamped, check |-> CheckRecord(via, user_id, tmdb_id, None, None, <<>>, None)]
        ELSE IF fault = "shows_read" \/ MatchingRows(st.shows, user_id, tmdb_id) = {} THEN
            [st |-> st, check |-> CheckRecord(via, user_id, tmdb_id, Some(new_status), None, <<>>, None)]
        ELSE IF fault = "shows_write" THEN
            [st |-> st, check |-> CheckRecord(via, user_id, tmdb_id, Some(new_status), Some(old_status), <<>>, None)]
        ELSE IF ShouldNotify(StatusChanged(old_status, new_status), new_status) THEN
            [st |-> notified.st,
             check |-> CheckRecord(via, user_id, tmdb_id, Some(new_status), Some(old_status), notified.calls, Some(new_status))]
        ELSE
            [st |-> written,
             check |-> CheckRecord(via, user_id, tmdb_id, Some(new_status), Some(old_status), <<>>, Some(new_status))]

\* Mutant: the notification made before the update, so that a raising
\* update leaves the notification without the status.
update_show_status_notifies_first(st, up, user_id, tmdb_id, show_title, fault, first, via) ==
    LET status_info == fetch_show_status(up, tmdb_id, fault)
        new_status  == status_info[1].status
        old_status  == first.show_status
        early       == notify_status_change(st, user_id, tmdb_id, show_title, old_status, new_status, status_info[1], "none")
        written     == [st EXCEPT !.shows = WriteStatus(st.shows, user_id, tmdb_id, new_status, st.clock)]
        notified    == notify_status_change(written, user_id, tmdb_id, show_title, old_status, new_status, status_info[1], fault)
    IN  IF status_info = None THEN
            [st |-> st, check |-> CheckRecord(via, user_id, tmdb_id, None, None, <<>>, None)]
        ELSE IF fault = "shows_read" \/ MatchingRows(st.shows, user_id, tmdb_id) = {} THEN
            [st |-> st, check |-> CheckRecord(via, user_id, tmdb_id, Some(new_status), None, <<>>, None)]
        ELSE IF fault = "shows_write" THEN
            [st |-> IF ShouldNotify(StatusChanged(old_status, new_status), new_status) THEN early.st ELSE st,
             check |-> CheckRecord(via, user_id, tmdb_id, Some(new_status), Some(old_status), <<>>, None)]
        ELSE IF ShouldNotify(StatusChanged(old_status, new_status), new_status) THEN
            [st |-> notified.st,
             check |-> CheckRecord(via, user_id, tmdb_id, Some(new_status), Some(old_status), notified.calls, Some(new_status))]
        ELSE
            [st |-> written,
             check |-> CheckRecord(via, user_id, tmdb_id, Some(new_status), Some(old_status), <<>>, Some(new_status))]

\* update_show_status: the store it leaves and the record of the run.  first
\* is the row that comes first in result.data, via names the caller.  A failing fetch, an empty
\* result and a raising read or write all return None.
update_show_status(st, up, user_id, tmdb_id, show_title, fault, first, via) ==
    LET status_info == fetch_show_status(up, tmdb_id, fault)
        new_status  == status_info[1].status
        old_status  == first.show_status
        written     == [st EXCEPT !.shows = WriteStatus(st.shows, user_id, tmdb_id, new_status, st.clock)]
        notified    == notify_status_change(written, user_id, tmdb_id, show_title, old_status, new_status, status_info[1], fault)
    IN  IF status_info = None THEN
            [st |-> st, check |-> CheckRecord(via, user_id, tmdb_id, None, None, <<>>, None)]
        ELSE IF fault = "shows_read" \/ MatchingRows(st.shows, user_id, tmdb_id) = {} THEN
            [st |-> st, check |-> CheckRecord(via, user_id, tmdb_id, Some(new_status), None, <<>>, None)]
        ELSE IF fault = "shows_write" THEN
            [st |-> st, check |-> CheckRecord(via, user_id, tmdb_id, Some(new_status), Some(old_status), <<>>, None)]
        ELSE IF ShouldNotify(StatusChanged(old_status, new_status), new_status) THEN
            [st |-> notified.st,
             check |-> CheckRecord(via, user_id, tmdb_id, Some(new_status), Some(old_status), notified.calls, Some(new_status))]
        ELSE
            [st |-> written,
             check |-> CheckRecord(via, user_id, tmdb_id, Some(new_status), Some(old_status), <<>>, Some(new_status))]

-----------------------------------------------------------------------------
(* app.py: the watchlist handlers, and the reconciler's specification *)

Regions == {"US"}

\* The entries the signed-in user adds: one show under two providers.
Entries == {<<"u1", 1396, "Netflix">>, <<"u1", 1396, "Hulu">>}

\* The shows on somebody's list.
Watched == {e[2] : e \in Entries}

\* The statuses TMDB moves the shows through.
UpstreamStatuses == {"Returning Series", "Ended", "Canceled"}

\* What can fail while a handler runs: the TMDB request, a query or a write
\* on "shows", the preferences query, the insert into "notifications", the
\* e-mail. One collaborator at most fails during one run.
Faults == {"none", "fetch", "shows_read", "shows_write", "prefs_read", "notification_insert", "send_email"}

\* Bounds of the model: how far the time advances, the rows of "notifications".
MaxClock == 1

MaxNotifications == 3

WithinBounds(st) == Len(st.notifs) <= MaxNotifications

NoCheck == CheckRecord("", "", 0, None, None, <<>>, None)

Commit(st) ==
    /\ shows' = st.shows
    /\ prefs' = st.prefs
    /\ notifs' = st.notifs
    /\ emails' = st.emails
    /\ clock' = clock

\* Mutant: an insert where the upsert should be, no conflict target.
UpsertRows_always_insert(S, user_id, tmdb_id, title, region, on_provider, provider_name) ==
    S \cup {[user_id |-> user_id, tmdb_id |-> tmdb_id, provider_name |-> provider_name, title |-> title,
             region |-> region, on_provider |-> on_provider, show_status |-> None, last_status_check |-> None]}

\* The row upsert_show writes: a new row has no show_status and no
\* last_status_check, an existing one keeps its own.
UpsertRows(S, user_id, tmdb_id, title, region, on_provider, provider_name) ==
    LET same(r) == r.user_id = user_id /\ r.tmdb_id = tmdb_id /\ r.provider_name = provider_name
    IN  IF \E r \in S : same(r)
        THEN {IF same(r) THEN [r EXCEPT !.title = title, !.region = region, !.on_provider = on_provider] ELSE r : r \in S}
        ELSE S \cup {[user_id |-> user_id, tmdb_id |-> tmdb_id, provider_name |-> provider_name, title |-> title,
                      region |-> region, on_provider |-> on_provider, show_status |-> None, last_status_check |-> None]}

\* Mutant: the notification and the status check made for every call, the
\* test of is_new_show left out.
UpsertShow_every_call(user_id, tmdb_id, region, on_provider, provider_name, fault) ==
    LET title    == Title(tmdb_id)
        upserted == [Store EXCEPT !.shows = UpsertRows(shows, user_id, tmdb_id, title, region, on_provider, provider_name)]
        added    == notify_show_status_change(upserted, user_id, title, tmdb_id, "added", FALSE, fault)
    IN  IF fault \in {"shows_read", "shows_write"} THEN
            /\ emails' = {}
            /\ check' = NoCheck
            /\ UNCHANGED <<shows, prefs, notifs, clock>>
        ELSE
            \E first \in FirstRows(added.st.shows, user_id, tmdb_id) :
                LET run == update_show_status(added.st, upstream, user_id, tmdb_id, title, fault, first, "upsert_show")
                IN  /\ WithinBounds(run.st)
                    /\ Commit(run.st)
                    /\ check' = run.check

\* upsert_show (lines 156-198) for the signed-in user: the upsert, and for a
\* new entry the "added" notification and one status check.  A raising query
\* or upsert propagates and leaves the store as it was.
UpsertShow(user_id, tmdb_id, region, on_provider, provider_name, fault) ==
    LET title    == Title(tmdb_id)
        is_new   == ~\E r \in shows : r.user_id = user_id /\ r.tmdb_id = tmdb_id /\ r.provider_name = provider_name
        upserted == [Store EXCEPT !.shows = UpsertRows(shows, user_id, tmdb_id, title, region, on_provider, provider_name)]
        added    == notify_show_status_change(upserted, user_id, title, tmdb_id, "added", FALSE, fault)
    IN  IF fault \in {"shows_read", "shows_write"} THEN
            /\ emails' = {}
            /\ check' = NoCheck
            /\ UNCHANGED <<shows, prefs, notifs, clock>>
        ELSE IF ~is_new THEN
            /\ Commit(upserted)
            /\ check' = NoCheck
        ELSE
            \E first \in FirstRows(added.st.shows, user_id, tmdb_id) :
                LET run == update_show_status(added.st, upstream, user_id, tmdb_id, title, fault, first, "upsert_show")
                IN  /\ WithinBounds(run.st)
                    /\ Commit(run.st)
                    /\ check' = run.check

\* delete_show (lines 200-208).
DeleteShow(user_id, tmdb_id, region, provider_name) ==
    /\ \E r \in shows : r.user_id = user_id /\ r.tmdb_id = tmdb_id /\ r.region = region /\ r.provider_name = provider_name
    /\ shows' = {r \in shows : ~(r.user_id = user_id /\ r.tmdb_id = tmdb_id /\ r.region = region /\ r.provider_name = provider_name)}
    /\ emails' = {}
    /\ check' = NoCheck
    /\ UNCHANGED <<prefs, notifs, clock>>

\* A call update_show_status(client, user_id, tmdb_id, title) of its own, as
\* the page's refresh loop makes for the rows it lists (app.py, lines 1806-1811).
UpdateShowStatus(user_id, tmdb_id, fault) ==
    \E first \in FirstRows(shows, user_id, tmdb_id) :
        LET run == update_show_status(Store, upstream, user_id, tmdb_id, Title(tmdb_id), fault, first, "direct")
        IN  /\ WithinBounds(run.st)
            /\ Commit(run.st)
            /\ check' = run.check

\* Time passes.
Tick ==
    /\ clock < MaxClock
    /\ clock' = clock + 1
    /\ UNCHANGED <<shows, prefs, notifs, emails, check>>

\* TMDB changes the status of a show.
TmdbChange(tmdb_id, status) ==
    /\ upstream[tmdb_id] # status
    /\ upstream' = [upstream EXCEPT ![tmdb_id] = status]
    /\ emails' = {}
    /\ check' = NoCheck
    /\ UNCHANGED <<shows, prefs, notifs, clock>>

ClassifierIdle ==
    /\ today = <<2025, 6, 15>>
    /\ tmdb_data = [status |-> "Unknown", in_production |-> FALSE, next_episode_to_air |-> None,
                    last_air_date |-> None, last_episode_to_air |-> None]
    /\ use_web_search = FALSE
    /\ result = None
    /\ result2 = None

ReconcilerIdle ==
    /\ upstream = [t \in TmdbIds |-> "Returning Series"]
    /\ shows = {}
    /\ prefs = [u \in Users |-> None]
    /\ notifs = <<>>
    /\ emails = {}
    /\ clock = 0
    /\ check = NoCheck

\* No batch run has been started.
NoStats == [total |-> 0, updated |-> 0, unchanged |-> 0, errors |-> 0]

BatchIdle ==
    batch = [pc |-> "idle", user_id |-> "", data |-> <<>>, i |-> 0, stats |-> NoStats, log |-> <<>>,
             raised |-> FALSE, ret |-> None, runs |-> 0]

\* The preferences page has made no call.
NoAccess == [op |-> "", user_id |-> "", updates |-> None, before |-> None, value |-> None, ret |-> None]

PreferencesIdle == access = NoAccess

\* The notifications page has made no call and no job has fired.
NoInboxCall == [op |-> "", user_id |-> "", notification_id |-> 0, ret |-> None]

\* init_scheduler has not been called: _scheduler is None (line 308).
NoScheduler == [instance |-> None, constructed |-> 0, jobs |-> <<>>, returned |-> None]

\* No run of update_show_status is under way.
NoRuns == <<>>

\* No role change has been asked for; the users table is filled in by the
\* specification that uses it.
NoAuth == [roles |-> <<>>, call |-> None]

OthersIdle == inbox = NoInboxCall /\ sched = NoScheduler /\ runs = NoRuns /\ auth = NoAuth

Init == ClassifierIdle /\ ReconcilerIdle /\ BatchIdle /\ PreferencesIdle /\ OthersIdle

Next ==
    \/ \E e \in Entries, g \in Regions, f \in Faults :
           UpsertShow(e[1], e[2], g, TRUE, e[3], f) /\ UNCHANGED <<clsVars, batch, access, otherVars, upstream>>
    \/ \E e \in Entries, g \in Regions :
           DeleteShow(e[1], e[2], g, e[3]) /\ UNCHANGED <<clsVars, batch, access, otherVars, upstream>>
    \/ \E e \in Entries, f \in Faults :
           UpdateShowStatus(e[1], e[2], f) /\ UNCHANGED <<clsVars, batch, access, otherVars, upstream>>
    \/ \E t \in Watched, s \in UpstreamStatuses :
           TmdbChange(t, s) /\ UNCHANGED <<clsVars, batch, access, otherVars>>
    \/ Tick /\ UNCHANGED <<clsVars, batch, access, otherVars, upstream>>

Spec == Init /\ [][Next]_vars

-----------------------------------------------------------------------------
(* The classifier's inputs and its specification *)

\* date.today() on the days of the calls.
Todays == {<<2025, 6, 15>>, <<2025, 6, 16>>}

\* last_air_date: absent, empty, unparseable, in the future, and either side
\* of the 1, 3, 5 and 10 year thresholds (365.25, 1095.75, 1826.25 and
\* 3652.5 days) as well as exactly 4.0 years (1461 days) before 2025-06-15.
LastAirDates ==
    {None, Some(""), Some("TBA"), Some("2015-2-30"), Some("2025-07-01"),
     Some("2024-06-16"), Some("2024-06-15"), Some("2024-06-14"), Some("2024-05-11"),
     Some("2022-06-17"), Some("2022-06-16"), Some("2022-06-15"), Some("2021-06-15"),
     Some("2020-06-16"), Some("2020-06-15"), Some("2020-06-14"),
     Some("2015-06-17"), Some("2015-06-16"), Some("2015-06-15"), Some("2015-6-14")}

AirDates == {None, Some(""), Some("TBA"), Some("2025-03-01")}

SeasonNumbers == {None, Some(4), Some(12)}

EpisodeNumbers == {None, Some(1)}

Episodes == [air_date : AirDates, season_number : SeasonNumbers, episode_number : EpisodeNumbers]

NextEpisodes == {None} \cup {Some(e) : e \in Episodes}

LastEpisodes == {None, Some([air_date |-> Some("2024-06-14"), season_number |-> Some(3), episode_number |-> Some(8)])}

TmdbData ==
    [status : Statuses, in_production : BOOLEAN, next_episode_to_air : NextEpisodes,
     last_air_date : LastAirDates, last_episode_to_air : LastEpisodes]

\* The show_title and tmdb_id arguments of the classifier calls.
ClassifiedShow == [title |-> "Severance", tmdb_id |-> 95396]

InitClassify ==
    /\ ReconcilerIdle
    /\ BatchIdle
    /\ PreferencesIdle
    /\ OthersIdle
    /\ today \in Todays
    /\ tmdb_data \in TmdbData
    /\ use_web_search \in BOOLEAN
    /\ result = None
    /\ result2 = None

\* A call get_enhanced_status(show_title, tmdb_id, tmdb_data, use_web_search).
Classify ==
    /\ result = None
    /\ result' = Some(get_enhanced_status(ClassifiedShow.title, ClassifiedShow.tmdb_id, tmdb_data, use_web_search, today))
    /\ UNCHANGED <<today, tmdb_data, use_web_search, result2, recVars, batch, access, otherVars>>

\* The same call made again, on the same day.
ClassifyAgain ==
    /\ result # None
    /\ result2 = None
    /\ result2' = Some(get_enhanced_status(ClassifiedShow.title, ClassifiedShow.tmdb_id, tmdb_data, use_web_search, today))
    /\ UNCHANGED <<today, tmdb_data, use_web_search, result, recVars, batch, access, otherVars>>

NextClassify == Classify \/ ClassifyAgain

SpecClassify == InitClassify /\ [][NextClassify]_vars

-----------------------------------------------------------------------------
(* app.py: the watchlist of several users, and its specification *)

\* The regions the users search in.
WatchlistRegions == {"US", "GB"}

\* What fails while the users add and remove shows.
WatchlistFaults == {"none", "shows_write", "notification_insert"}

\* Both users add and remove one show under either provider, from either region.
NextWatchlist ==
    \/ \E u \in Users, p \in Providers, g \in WatchlistRegions, f \in WatchlistFaults :
           UpsertShow(u, 1396, g, TRUE, p, f) /\ UNCHANGED <<clsVars, batch, access, otherVars, upstream>>
    \/ \E u \in Users, p \in Providers, g \in WatchlistRegions :
           DeleteShow(u, 1396, g, p) /\ UNCHANGED <<clsVars, batch, access, otherVars, upstream>>

SpecWatchlist == Init /\ [][NextWatchlist]_vars

-----------------------------------------------------------------------------
(* show_status.py: check_all_shows_status, and the batch's specification *)

\* The orders result.data can list a set of rows in: the query has no ORDER BY.
Listings(rows) ==
    {d \in [1..Cardinality(rows) -> rows] : \A i, j \in 1..Cardinality(rows) : d[i] = d[j] => i = j}

\* Lines 219-224: the bucket an entry is counted in.
Bucket(new_status, old_status) ==
    IF new_status = None THEN "errors"
    ELSE IF new_status # old_status THEN "updated"
    ELSE "unchanged"

Count(stats, bucket) ==
    CASE bucket = "errors" -> [stats EXCEPT !.errors = @ + 1]
      [] bucket = "updated" -> [stats EXCEPT !.updated = @ + 1]
      [] bucket = "unchanged" -> [stats EXCEPT !.unchanged = @ + 1]

\* Mutant: the except branch returns a summary of zeros.
FailedStats_no_error == [total |-> 0, updated |-> 0, unchanged |-> 0, errors |-> 0]

\* Line 231: what the except branch returns.
FailedStats == [total |-> 0, updated |-> 0, unchanged |-> 0, errors |-> 1]

\* Bound of the model: the batch runs of one behaviour.
MaxBatchRuns == 1

\* Mutant: a failed check ends the loop.
AfterEntry_stop_on_error(i, n, new_status) == IF i = n \/ new_status = None THEN "done" ELSE "loop"

\* Lines 212 and 226-227: the loop goes on to the next listed row, whatever
\* the check returned, and the function returns after the last.
AfterEntry(i, n, new_status) == IF i = n THEN "done" ELSE "loop"

\* The store the batch's next call works on: the e-mails of the run so far are kept.
BatchStore == [Store EXCEPT !.emails = emails]

\* What the history keeps of one iteration: the listed row, the status its
\* own row held right before the check (None when the row was gone), what
\* update_show_status returned and the bucket counted.
Stored(S, row) ==
    LET own == {r \in S : r.user_id = row.user_id /\ r.tmdb_id = row.tmdb_id /\ r.provider_name = row.provider_name}
    IN  IF own = {} THEN None ELSE Some((CHOOSE r \in own : TRUE).show_status)

\* check_all_shows_status, lines 200-210 and 229-231: the listing, the empty
\* watchlist, the raising query.
BatchStart(user_id, fault) ==
    /\ batch.pc \in {"idle", "done"}
    /\ batch.runs < MaxBatchRuns
    /\ LET rows == {r \in shows : r.user_id = user_id}
           new  == [pc |-> "done", user_id |-> user_id, data |-> <<>>, i |-> 0, stats |-> NoStats,
                    log |-> <<>>, raised |-> FALSE, ret |-> None, runs |-> batch.runs + 1]
       IN  IF fault = "shows_read" THEN batch' = [new EXCEPT !.raised = TRUE, !.ret = Some(FailedStats)]
           ELSE IF rows = {} THEN batch' = [new EXCEPT !.ret = Some(NoStats)]
           ELSE \E data \in Listings(rows) :
                    batch' = [new EXCEPT !.pc = "loop", !.data = data, !.i = 1,
                                         !.stats = [NoStats EXCEPT !.total = Len(data)]]
    /\ emails' = {}
    /\ check' = NoCheck
    /\ UNCHANGED <<shows, prefs, notifs, clock>>

\* Lines 212-227: one iteration of the loop, and the return after the last.
BatchStep(fault) ==
    /\ batch.pc = "loop"
    /\ LET show       == batch.data[batch.i]
           old_status == show.show_status
       IN  \E first \in FirstRows(shows, batch.user_id, show.tmdb_id) :
               LET run        == update_show_status(BatchStore, upstream, batch.user_id, show.tmdb_id, show.title,
                                                    fault, first, "check_all_shows_status")
                   new_status == run.check.ret
                   bucket     == Bucket(new_status, old_status)
                   stats      == Count(batch.stats, bucket)
                   entry      == [row |-> show, before |-> Stored(shows, show), ret |-> new_status, bucket |-> bucket]
               IN  /\ Commit(run.st)
                   /\ check' = run.check
                   /\ batch' = [batch EXCEPT !.stats = stats,
                                             !.log = Append(@, entry),
                                             !.i = @ + 1,
                                             !.pc = AfterEntry(batch.i, Len(batch.data), new_status),
                                             !.ret = IF AfterEntry(batch.i, Len(batch.data), new_status) = "done"
                                                     THEN Some(stats) ELSE None]

\* The watchlist the batch runs on: u1 follows one show under two providers,
\* u2 follows the same show.
BatchEntries == {<<"u1", 1396, "Netflix">>, <<"u1", 1396, "Hulu">>}

OtherEntries == {<<"u2", 1396, "Netflix">>}

\* A row as upsert_show and a completed status check at time 0 left it.
CheckedRow(e, status) ==
    [user_id |-> e[1], tmdb_id |-> e[2], provider_name |-> e[3], title |-> Title(e[2]), region |-> "US",
     on_provider |-> TRUE, show_status |-> Some(status), last_status_check |-> Some(0)]

\* The rows are on the watchlist, checked while TMDB said "Returning Series";
\* the users' preference rows exist and their notifications have been deleted.
InitBatch ==
    /\ ClassifierIdle
    /\ BatchIdle
    /\ PreferencesIdle
    /\ OthersIdle
    /\ upstream = [t \in TmdbIds |-> "Returning Series"]
    /\ shows = {CheckedRow(e, "Returning Series") : e \in BatchEntries \cup OtherEntries}
    /\ prefs = [u \in Users |-> Some(DefaultPreferences)]
    /\ notifs = <<>>
    /\ emails = {}
    /\ clock = 0
    /\ check = NoCheck

\* The loop takes its next iteration.
BatchLoop == \E f \in Faults : BatchStep(f) /\ UNCHANGED <<clsVars, access, otherVars, upstream>>

NextBatch ==
    \/ \E f \in {"none", "shows_read"} :
           BatchStart("u1", f) /\ UNCHANGED <<clsVars, access, otherVars, upstream>>
    \/ BatchLoop
    \/ \E e \in BatchEntries, g \in Regions :
           DeleteShow(e[1], e[2], g, e[3]) /\ UNCHANGED <<clsVars, batch, access, otherVars, upstream>>
    \/ \E t \in Watched, s \in UpstreamStatuses :
           TmdbChange(t, s) /\ UNCHANGED <<clsVars, batch, access, otherVars>>
    \/ Tick /\ UNCHANGED <<clsVars, batch, access, otherVars, upstream>>

SpecBatch == InitBatch /\ [][NextBatch]_vars

-----------------------------------------------------------------------------
(* app.py: the notification preferences page, and its specification *)

\* The failures a run of the page can meet: the select or the write on
\* "notification_preferences" raises.
PreferenceFaults == {"none", "prefs_read", "prefs_write"}

\* The dict the Save button collects (lines 1383-1394): all ten flags, here
\* with the two series-finale boxes as the user left them and the others at
\* their defaults.
PreferenceUpdates ==
    {[email_new_episodes |-> TRUE, email_weekly_preview |-> TRUE, email_series_finale |-> e,
      email_series_cancelled |-> TRUE, email_show_added |-> FALSE,
      inapp_new_episodes |-> TRUE, inapp_weekly_preview |-> TRUE, inapp_series_finale |-> i,
      inapp_series_cancelled |-> TRUE, inapp_show_added |-> TRUE] : e \in BOOLEAN, i \in BOOLEAN}

\* The page is rendered: get_or_create_preferences for the signed-in user
\* (line 1288).
GetOrCreatePreferences(user_id, fault) ==
    LET got == get_or_create_preferences(prefs, user_id, fault = "prefs_read")
    IN  /\ prefs' = got.prefs
        /\ access' = [op |-> "get_or_create_preferences", user_id |-> user_id, updates |-> None,
                      before |-> prefs[user_id], value |-> Some(got.value), ret |-> None]
        /\ emails' = {}
        /\ check' = NoCheck
        /\ UNCHANGED <<shows, notifs, clock>>

\* Save Preferences is pressed: update_preferences (line 1397).
UpdatePreferences(user_id, updates, fault) ==
    LET run == update_preferences(prefs, user_id, updates, fault)
    IN  /\ prefs' = run.prefs
        /\ access' = [op |-> "update_preferences", user_id |-> user_id, updates |-> Some(updates),
                      before |-> prefs[user_id], value |-> None, ret |-> Some(run.ret)]
        /\ emails' = {}
        /\ check' = NoCheck
        /\ UNCHANGED <<shows, notifs, clock>>

PreferenceEntries == {<<"u1", 1396, "Netflix">>}

\* One show is on u1's watchlist, checked while TMDB said "Returning Series";
\* nobody has a preference row yet.
InitPreferences ==
    /\ ClassifierIdle
    /\ BatchIdle
    /\ PreferencesIdle
    /\ OthersIdle
    /\ upstream = [t \in TmdbIds |-> "Returning Series"]
    /\ shows = {CheckedRow(e, "Returning Series") : e \in PreferenceEntries}
    /\ prefs = [u \in Users |-> None]
    /\ notifs = <<>>
    /\ emails = {}
    /\ clock = 0
    /\ check = NoCheck

NextPreferences ==
    \/ \E u \in Users, f \in PreferenceFaults :
           GetOrCreatePreferences(u, f) /\ UNCHANGED <<clsVars, batch, otherVars, upstream>>
    \/ \E u \in Users, d \in PreferenceUpdates, f \in PreferenceFaults :
           UpdatePreferences(u, d, f) /\ UNCHANGED <<clsVars, batch, otherVars, upstream>>
    \/ \E e \in PreferenceEntries, f \in {"none", "prefs_read"} :
           UpdateShowStatus(e[1], e[2], f) /\ access' = NoAccess /\ UNCHANGED <<clsVars, batch, otherVars, upstream>>
    \/ \E e \in PreferenceEntries, s \in {"Returning Series", "Ended"} :
           TmdbChange(e[2], s) /\ access' = NoAccess /\ UNCHANGED <<clsVars, batch, otherVars>>

SpecPreferences == InitPreferences /\ [][NextPreferences]_vars

-----------------------------------------------------------------------------
(* notifications.py: the notifications page; scheduled_tasks.py: the jobs; *)
(* and their specification                                                  *)

\* The row an update's payload leaves: its keys replace or extend the row's.
Updated(row, updates) == [k \in DOMAIN row \cup DOMAIN updates |-> IF k \in DOMAIN updates THEN updates[k] ELSE row[k]]

\* Mutant: the update's filter on "id" left out.
mark_notification_read_every_row(N, notification_id, now, fails) ==
    IF fails THEN [notifs |-> N, ret |-> FALSE]
    ELSE [notifs |-> [k \in 1..Len(N) |-> Updated(N[k], [is_read |-> TRUE, read_at |-> now])],
          ret |-> TRUE]

\* mark_notification_read (lines 190-200).  The id of a row is its place in
\* the table when the call is made; an id no row has matches nothing.
mark_notification_read(N, notification_id, now, fails) ==
    IF fails THEN [notifs |-> N, ret |-> FALSE]
    ELSE [notifs |-> [k \in 1..Len(N) |-> IF k = notification_id
                                           THEN Updated(N[k], [is_read |-> TRUE, read_at |-> now])
                                           ELSE N[k]],
          ret |-> TRUE]

\* mark_all_notifications_read (lines 203-214).
mark_all_notifications_read(N, user_id, now, fails) ==
    IF fails THEN [notifs |-> N, ret |-> FALSE]
    ELSE [notifs |-> [k \in 1..Len(N) |-> IF N[k].user_id = user_id /\ ~N[k].is_read
                                           THEN Updated(N[k], [is_read |-> TRUE, read_at |-> now])
                                           ELSE N[k]],
          ret |-> TRUE]

\* delete_notification (lines 217-227).
delete_notification(N, notification_id, fails) ==
    IF fails THEN [notifs |-> N, ret |-> FALSE]
    ELSE [notifs |-> IF notification_id \in 1..Len(N)
                     THEN SubSeq(N, 1, notification_id - 1) \o SubSeq(N, notification_id + 1, Len(N))
                     ELSE N,
          ret |-> TRUE]

\* get_unread_count (lines 230-241).
get_unread_count(N, user_id) == Cardinality({k \in 1..Len(N) : N[k].user_id = user_id /\ ~N[k].is_read})

\* The "Read" button of a notification the page lists (lines 303-306): shown
\* for the signed-in user's unread rows.
MarkNotificationRead(user_id, notification_id, fails) ==
    /\ notification_id \in 1..Len(notifs)
    /\ notifs[notification_id].user_id = user_id
    /\ ~notifs[notification_id].is_read
    /\ notifs' = mark_notification_read(notifs, notification_id, clock, fails).notifs
    /\ inbox' = [op |-> "mark_notification_read", user_id |-> user_id, notification_id |-> notification_id,
                 ret |-> Some(mark_notification_read(notifs, notification_id, clock, fails).ret)]
    /\ emails' = {}
    /\ check' = NoCheck
    /\ UNCHANGED <<shows, prefs, clock>>

\* "Mark all as read" (lines 270-274): shown when the user has unread rows.
MarkAllNotificationsRead(user_id, fails) ==
    /\ get_unread_count(notifs, user_id) > 0
    /\ notifs' = mark_all_notifications_read(notifs, user_id, clock, fails).notifs
    /\ inbox' = [op |-> "mark_all_notifications_read", user_id |-> user_id, notification_id |-> 0,
                 ret |-> Some(mark_all_notifications_read(notifs, user_id, clock, fails).ret)]
    /\ emails' = {}
    /\ check' = NoCheck
    /\ UNCHANGED <<shows, prefs, clock>>

\* The "Delete" button of a notification the page lists (lines 307-310).
DeleteNotification(user_id, notification_id, fails) ==
    /\ notification_id \in 1..Len(notifs)
    /\ notifs[notification_id].user_id = user_id
    /\ notifs' = delete_notification(notifs, notification_id, fails).notifs
    /\ inbox' = [op |-> "delete_notification", user_id |-> user_id, notification_id |-> notification_id,
                 ret |-> Some(delete_notification(notifs, notification_id, fails).ret)]
    /\ emails' = {}
    /\ check' = NoCheck
    /\ UNCHANGED <<shows, prefs, clock>>

\* notify_new_episode (lines 339-357).
notify_new_episode(st, user_id, show_title, show_id, air_date, send_email, fault) ==
    create_notification(st, user_id, "new_episode", "New Episode Available!", "A new episode is airing on " \o air_date,
                        Some(show_id), Some(show_title), send_email, fault).st

\* date.isoformat()
IsoDate(d) == ToString(d[1]) \o "-" \o Pad2(d[2]) \o "-" \o Pad2(d[3])

\* The orders in which a query without ORDER BY may answer a set of rows.
Orders(S) == {q \in [1..Cardinality(S) -> S] : \A i, j \in 1..Cardinality(S) : i # j => q[i] # q[j]}

\* users_shows of the daily job (lines 98-104), flattened: the users in the
\* order of their first row, each with its rows in the order listed.
RECURSIVE Grouped(_)
Grouped(rows) ==
    IF rows = <<>> THEN <<>>
    ELSE SelectSeq(rows, LAMBDA r : r.user_id = Head(rows).user_id)
         \o Grouped(SelectSeq(rows, LAMBDA r : r.user_id # Head(rows).user_id))

\* The loop of the daily job (lines 110-129); every user of the model has a
\* row in "users".
RECURSIVE RemindAll(_, _, _)
RemindAll(st, rows, fault) ==
    IF rows = <<>> THEN st
    ELSE RemindAll(notify_new_episode(st, Head(rows).user_id, Head(rows).title, Head(rows).tmdb_id,
                                      Head(rows).next_air_date[1], TRUE, fault),
                   Tail(rows), fault)

\* _send_daily_reminders_to_all_users (lines 82-141), as the scheduler's
\* daily job or the admin's test button runs it.
DailyReminders(fault) ==
    \E listed \in Orders({r \in shows : r.next_air_date = Some(IsoDate(today))}) :
        LET st == RemindAll(Store, Grouped(listed), fault)
        IN  /\ WithinBounds(st)
            /\ Commit(st)
            /\ inbox' = [op |-> "daily_reminders", user_id |-> "", notification_id |-> 0, ret |-> None]
            /\ check' = NoCheck

\* The rows of one user the weekly job selects (lines 163-169): next_air_date
\* from today to seven days on.
AiringThisWeek(S, user_id, d) ==
    {r \in S : /\ r.user_id = user_id
               /\ r.next_air_date # None
               /\ StrpDate(r.next_air_date[1]) # None
               /\ ToOrdinal(StrpDate(r.next_air_date[1])[1]) - ToOrdinal(d) \in 0..7}

\* One user's turn in the weekly job (lines 158-196): the preview e-mail,
\* sent whatever the preferences say, and a "reminder" notification.  The
\* message lists the shows; here it gives their number.
PreviewUser(st, user_id, d, fault) ==
    LET n == Cardinality(AiringThisWeek(st.shows, user_id, d))
        mailed == [st EXCEPT !.emails = IF fault = "send_email" THEN @
                                        ELSE @ \cup {[user_id |-> user_id,
                                                      subject |-> "This Week: " \o ToString(n) \o " New Episodes"]}]
    IN  IF n = 0 THEN st
        ELSE create_notification(mailed, user_id, "reminder", "This Week: " \o ToString(n) \o " Episodes Airing",
                                 "You have " \o ToString(n) \o " new episodes this week", None, None, FALSE, fault).st

RECURSIVE PreviewAll(_, _, _, _)
PreviewAll(st, listed, d, fault) ==
    IF listed = <<>> THEN st ELSE PreviewAll(PreviewUser(st, Head(listed), d, fault), Tail(listed), d, fault)

\* _send_weekly_preview_to_all_users (lines 143-207).
WeeklyPreview(fault) ==
    \E listed \in Orders(Users) :
        LET st == PreviewAll(Store, listed, today, fault)
        IN  /\ WithinBounds(st)
            /\ Commit(st)
            /\ inbox' = [op |-> "weekly_preview", user_id |-> "", notification_id |-> 0, ret |-> None]
            /\ check' = NoCheck

\* The failures a job can meet.
JobFaults == {"none", "notification_insert"}

\* A watchlist row with its next_air_date, as upsert_show and a completed
\* status check at time 0 left it.
AiringRow(e, status, next_air_date) ==
    [user_id |-> e[1], tmdb_id |-> e[2], provider_name |-> e[3], title |-> Title(e[2]), region |-> "US",
     on_provider |-> TRUE, show_status |-> Some(status), last_status_check |-> Some(0),
     next_air_date |-> next_air_date]

\* u1's show airs today, u2's in three days; nobody has a preference row or a
\* notification yet.
InitNotifications ==
    /\ ClassifierIdle
    /\ BatchIdle
    /\ PreferencesIdle
    /\ OthersIdle
    /\ upstream = [t \in TmdbIds |-> "Returning Series"]
    /\ shows = {AiringRow(<<"u1", 1396, "Netflix">>, "Returning Series", Some("2025-06-15")),
                AiringRow(<<"u2", 1396, "Netflix">>, "Returning Series", Some("2025-06-18"))}
    /\ prefs = [u \in Users |-> None]
    /\ notifs = <<>>
    /\ emails = {}
    /\ clock = 0
    /\ check = NoCheck

\* The variables the page and the jobs leave alone.
pageFrame == <<clsVars, batch, access, sched, runs, auth, upstream>>

\* The page shows this many notifications at most.
MaxInbox == 2

\* What a user saves on the preferences page here: no in-app series finale.
InboxUpdates == {d \in PreferenceUpdates : d.email_series_finale /\ ~d.inapp_series_finale}

NextNotifications ==
    \/ \E u \in Users, k \in 1..MaxInbox, f \in BOOLEAN :
           MarkNotificationRead(u, k, f) /\ UNCHANGED pageFrame
    \/ \E u \in Users, f \in BOOLEAN :
           MarkAllNotificationsRead(u, f) /\ UNCHANGED pageFrame
    \/ \E u \in Users, k \in 1..MaxInbox, f \in BOOLEAN :
           DeleteNotification(u, k, f) /\ UNCHANGED pageFrame
    \/ \E f \in JobFaults :
           DailyReminders(f) /\ Len(notifs') <= MaxInbox /\ UNCHANGED pageFrame
    \/ \E f \in JobFaults :
           WeeklyPreview(f) /\ Len(notifs') <= MaxInbox /\ UNCHANGED pageFrame
    \/ \E f \in {"none", "notification_insert"} :
           /\ UpdateShowStatus("u1", 1396, f)
           /\ Len(notifs') <= MaxInbox
           /\ inbox' = NoInboxCall
           /\ UNCHANGED pageFrame
    \/ \E s \in {"Returning Series", "Ended"} :
           TmdbChange(1396, s) /\ inbox' = NoInboxCall /\ UNCHANGED <<clsVars, batch, access, sched, runs, auth>>
    \/ \E d \in InboxUpdates :
           /\ UpdatePreferences("u1", d, "none")
           /\ inbox' = NoInboxCall
           /\ UNCHANGED <<clsVars, batch, sched, runs, auth, upstream>>

SpecNotifications == InitNotifications /\ [][NextNotifications]_vars

-----------------------------------------------------------------------------
(* show_status.py: two overlapping runs of update_show_status, statement by *)
(* statement, and their specification                                       *)

\* The runs: the page's refresh loop in one session and Check All in another.
Procs == {1, 2}

\* The entry both runs check.
RunEntry == <<"u1", 1396, "Netflix">>

\* A run that has not started: its position and its locals.
IdleRun == [pc |-> "idle", status_info |-> None, old_status |-> None, ret |-> None]

\* The fetch (lines 74-79): status_info, or the return of None.
RunFetch(p, fault) ==
    /\ runs.proc[p].pc = "idle"
    /\ LET status_info == fetch_show_status(upstream, RunEntry[2], fault)
       IN  runs' = [runs EXCEPT !.proc[p] = IF status_info = None
                                             THEN [@ EXCEPT !.pc = "done"]
                                             ELSE [@ EXCEPT !.pc = "read", !.status_info = status_info]]
    /\ UNCHANGED <<shows, prefs, notifs, emails, clock, check>>

\* The select (lines 81-93): old_status from the first row, or the return of
\* None when there is no row.
RunRead(p) ==
    /\ runs.proc[p].pc = "read"
    /\ \E first \in FirstRows(shows, RunEntry[1], RunEntry[2]) :
           runs' = [runs EXCEPT !.proc[p] = IF MatchingRows(shows, RunEntry[1], RunEntry[2]) = {}
                                             THEN [@ EXCEPT !.pc = "done"]
                                             ELSE [@ EXCEPT !.pc = "write", !.old_status = Some(first.show_status)]]
    /\ UNCHANGED <<shows, prefs, notifs, emails, clock, check>>

\* Mutant: the write made with the status the run read, not the one it fetched.
RunWrite_stored_status(p) ==
    /\ runs.proc[p].pc = "write"
    /\ runs.proc[p].old_status[1] # None
    /\ LET new_status == runs.proc[p].status_info[1].status
           old_status == runs.proc[p].old_status[1]
       IN  /\ shows' = WriteStatus(shows, RunEntry[1], RunEntry[2], old_status[1], clock)
           /\ runs' = [runs EXCEPT !.writes = Append(@, [proc |-> p, status |-> new_status]),
                                   !.proc[p] = IF ShouldNotify(StatusChanged(old_status, new_status), new_status)
                                               THEN [@ EXCEPT !.pc = "notify"]
                                               ELSE [@ EXCEPT !.pc = "done", !.ret = Some(new_status)]]
    /\ UNCHANGED <<prefs, notifs, emails, clock, check>>

\* The update (lines 95-102) and the test of line 107.
RunWrite(p) ==
    /\ runs.proc[p].pc = "write"
    /\ LET new_status == runs.proc[p].status_info[1].status
           old_status == runs.proc[p].old_status[1]
       IN  /\ shows' = WriteStatus(shows, RunEntry[1], RunEntry[2], new_status, clock)
           /\ runs' = [runs EXCEPT !.writes = Append(@, [proc |-> p, status |-> new_status]),
                                   !.proc[p] = IF ShouldNotify(StatusChanged(old_status, new_status), new_status)
                                               THEN [@ EXCEPT !.pc = "notify"]
                                               ELSE [@ EXCEPT !.pc = "done", !.ret = Some(new_status)]]
    /\ UNCHANGED <<prefs, notifs, emails, clock, check>>

\* notify_status_change (line 108) and the return of the new status.
RunNotify(p, fault) ==
    /\ runs.proc[p].pc = "notify"
    /\ LET new_status == runs.proc[p].status_info[1].status
           notified == notify_status_change([Store EXCEPT !.emails = emails], RunEntry[1], RunEntry[2], Title(RunEntry[2]),
                                            runs.proc[p].old_status[1], new_status, runs.proc[p].status_info[1], fault)
       IN  /\ Commit(notified.st)
           /\ runs' = [runs EXCEPT !.proc[p] = [@ EXCEPT !.pc = "done", !.ret = Some(new_status)]]
    /\ check' = check

\* The entry is on the watchlist, checked while TMDB said "Returning Series";
\* neither run has started.
InitRuns ==
    /\ ClassifierIdle
    /\ BatchIdle
    /\ PreferencesIdle
    /\ inbox = NoInboxCall /\ sched = NoScheduler /\ auth = NoAuth
    /\ runs = [proc |-> [p \in Procs |-> IdleRun], writes |-> <<>>]
    /\ upstream = [t \in TmdbIds |-> "Returning Series"]
    /\ shows = {CheckedRow(RunEntry, "Returning Series")}
    /\ prefs = [u \in Users |-> Some(DefaultPreferences)]
    /\ notifs = <<>>
    /\ emails = {}
    /\ clock = 0
    /\ check = NoCheck

\* The variables a run's statements leave alone.
runFrame == <<clsVars, batch, access, inbox, sched, auth>>

\* TMDB moves the show to a terminal status once, at any point of the runs.
NextRuns ==
    \/ \E p \in Procs, f \in {"none", "fetch"} : RunFetch(p, f) /\ UNCHANGED <<runFrame, upstream>>
    \/ \E p \in Procs : RunRead(p) /\ UNCHANGED <<runFrame, upstream>>
    \/ \E p \in Procs : RunWrite(p) /\ UNCHANGED <<runFrame, upstream>>
    \/ \E p \in Procs, f \in {"none", "notification_insert"} : RunNotify(p, f) /\ UNCHANGED <<runFrame, upstream>>
    \/ \E s \in {"Ended", "Canceled"} :
           /\ upstream[RunEntry[2]] = "Returning Series"
           /\ TmdbChange(RunEntry[2], s)
           /\ UNCHANGED <<runFrame, runs>>
    \/ Tick /\ UNCHANGED <<runFrame, runs, upstream>>

SpecRuns == InitRuns /\ [][NextRuns]_vars

-----------------------------------------------------------------------------
(* app.py, show_status.py: a show that has ended, tracked under one         *)
(* provider and added under further ones; its specification                 *)

\* The entry tracked from the start, and the entries the user goes on to add.
TrackedEntry == <<"u1", 1396, "Netflix">>

FurtherEntries == {<<"u1", 1396, "Netflix">>, <<"u1", 1396, "Hulu">>}

\* TMDB says "Ended" and stays there.
EndedUpstream == [t \in TmdbIds |-> "Ended"]

\* The store before the check that found the show ended.
StoreBeforeFinale ==
    [shows |-> {CheckedRow(TrackedEntry, "Ended")}, prefs |-> [u \in Users |-> Some(DefaultPreferences)],
     notifs |-> <<>>, emails |-> {}, clock |-> 0]

\* The entry stores "Ended" and the check that wrote it has created the
\* series_finale notification.
InitProviders ==
    /\ ClassifierIdle
    /\ BatchIdle
    /\ PreferencesIdle
    /\ OthersIdle
    /\ upstream = EndedUpstream
    /\ shows = StoreBeforeFinale.shows
    /\ prefs = StoreBeforeFinale.prefs
    /\ notifs = notify_status_change(StoreBeforeFinale, TrackedEntry[1], TrackedEntry[2], Title(TrackedEntry[2]),
                                     Some("Returning Series"), "Ended",
                                     fetch_show_status(EndedUpstream, TrackedEntry[2], "none")[1], "none").st.notifs
    /\ emails = {}
    /\ clock = 0
    /\ check = NoCheck

\* Additions under further providers, per-entry checks and batch checks; TMDB
\* does not change and nothing is removed.
NextProviders ==
    \/ \E e \in FurtherEntries, g \in Regions, f \in Faults :
           UpsertShow(e[1], e[2], g, TRUE, e[3], f) /\ UNCHANGED <<clsVars, batch, access, otherVars, upstream>>
    \/ \E f \in Faults :
           UpdateShowStatus(TrackedEntry[1], TrackedEntry[2], f) /\ UNCHANGED <<clsVars, batch, access, otherVars, upstream>>
    \/ \E f \in {"none", "shows_read"} :
           BatchStart(TrackedEntry[1], f) /\ UNCHANGED <<clsVars, access, otherVars, upstream>>
    \/ BatchLoop
    \/ Tick /\ UNCHANGED <<clsVars, batch, access, otherVars, upstream>>

SpecProviders == InitProviders /\ [][NextProviders]_vars

-----------------------------------------------------------------------------
(* show_status.py: status checks on the watchlists of two users with two    *)
(* shows, and their specification                                           *)

\* A watchlist row with all the columns list_shows reads (app.py, line 213)
\* that the claims name; production_status is written by nothing under src/.
FullRow(e, region, status, next_air_date) ==
    [user_id |-> e[1], tmdb_id |-> e[2], provider_name |-> e[3], title |-> Title(e[2]), region |-> region,
     on_provider |-> TRUE, show_status |-> Some(status), last_status_check |-> Some(0),
     next_air_date |-> next_air_date, production_status |-> None]

\* u1 has one show under two providers and a second show, u2 has u1's first
\* show.  All were checked at time 0, while TMDB said "Returning Series"; it
\* is now time 1.
InitFrame ==
    /\ ClassifierIdle
    /\ BatchIdle
    /\ PreferencesIdle
    /\ OthersIdle
    /\ upstream = [t \in TmdbIds |-> "Returning Series"]
    /\ shows = {FullRow(<<"u1", 1396, "Netflix">>, "US", "Returning Series", Some("2025-06-15")),
                FullRow(<<"u1", 1396, "Hulu">>, "GB", "Returning Series", None),
                FullRow(<<"u1", 66732, "Netflix">>, "US", "Returning Series", Some("2025-06-18")),
                FullRow(<<"u2", 1396, "Netflix">>, "US", "Returning Series", Some("2025-06-15"))}
    /\ prefs = [u \in Users |-> Some(DefaultPreferences)]
    /\ notifs = <<>>
    /\ emails = {}
    /\ clock = 1
    /\ check = NoCheck

NextFrame ==
    \/ \E u \in Users, t \in TmdbIds, f \in {"none", "fetch", "shows_write"} :
           UpdateShowStatus(u, t, f) /\ UNCHANGED <<clsVars, batch, access, otherVars, upstream>>
    \/ \E t \in TmdbIds, s \in {"Returning Series", "Ended"} :
           TmdbChange(t, s) /\ UNCHANGED <<clsVars, batch, access, otherVars>>

SpecFrame == InitFrame /\ [][NextFrame]_vars

-----------------------------------------------------------------------------
(* auth.py: roles, and their specification *)

\* The rows of "users", and an id no row has.
RoleUsers == {"u1", "u2", "u3"}

UserIds == RoleUsers \cup {"nobody"}

\* The query of a role function that raises while it runs.
AuthFaults == {"none", "role_read", "admins_read", "email_read", "role_write"}

\* get_user_role (lines 199-224): "user" when there is no row or the query
\* raises.
get_user_role(R, user_id, fails) == IF fails \/ user_id \notin DOMAIN R THEN "user" ELSE R[user_id]

\* is_admin (lines 227-239)
is_admin(R, user_id, fails) == get_user_role(R, user_id, fails) = "admin"

\* list_admins (lines 320-340): empty when the query raises.
list_admins(R, fails) == IF fails THEN {} ELSE {u \in DOMAIN R : R[u] = "admin"}

\* get_user_email_by_id (lines 293-317)
get_user_email_by_id(R, user_id, fails) ==
    IF fails \/ user_id \notin DOMAIN R THEN None ELSE Some(user_id \o "@example.com")

\* set_user_role (lines 261-290): the update matches the row of the id, if
\* there is one.
set_user_role(R, user_id, role, fails) ==
    IF role \notin {"user", "admin"} \/ fails THEN [roles |-> R, ret |-> FALSE]
    ELSE [roles |-> [u \in DOMAIN R |-> IF u = user_id THEN role ELSE R[u]], ret |-> TRUE]

\* promote_to_admin (lines 366-399)
promote_to_admin(R, user_id, admin_user_id, fault) ==
    LET user_email == get_user_email_by_id(R, user_id, fault = "email_read")
        set == set_user_role(R, user_id, "admin", fault = "role_write")
    IN  IF ~is_admin(R, admin_user_id, fault = "role_read") THEN
            [roles |-> R, ret |-> <<FALSE, "Only admins can promote users">>]
        ELSE IF ~TruthyStr(user_email) THEN
            [roles |-> R, ret |-> <<FALSE, "User not found">>]
        ELSE IF set.ret THEN
            [roles |-> set.roles, ret |-> <<TRUE, "Successfully promoted " \o user_email[1] \o " to admin">>]
        ELSE
            [roles |-> set.roles, ret |-> <<FALSE, "Failed to update user role">>]

\* Mutant: the test of self-demotion left out.
demote_to_user_self_allowed(R, user_id, admin_user_id, fault) ==
    LET user_email == get_user_email_by_id(R, user_id, fault = "email_read")
        set == set_user_role(R, user_id, "user", fault = "role_write")
    IN  IF ~is_admin(R, admin_user_id, fault = "role_read") THEN
            [roles |-> R, ret |-> <<FALSE, "Only admins can demote users">>]
        ELSE IF Cardinality(list_admins(R, fault = "admins_read")) <= 1 THEN
            [roles |-> R, ret |-> <<FALSE, "Cannot demote the last admin. Promote another user first.">>]
        ELSE IF ~TruthyStr(user_email) THEN
            [roles |-> R, ret |-> <<FALSE, "User not found">>]
        ELSE IF set.ret THEN
            [roles |-> set.roles, ret |-> <<TRUE, "Successfully demoted " \o user_email[1] \o " to regular user">>]
        ELSE
            [roles |-> set.roles, ret |-> <<FALSE, "Failed to update user role">>]

\* demote_to_user (lines 402-444)
demote_to_user(R, user_id, admin_user_id, fault) ==
    LET user_email == get_user_email_by_id(R, user_id, fault = "email_read")
        set == set_user_role(R, user_id, "user", fault = "role_write")
    IN  IF ~is_admin(R, admin_user_id, fault = "role_read") THEN
            [roles |-> R, ret |-> <<FALSE, "Only admins can demote users">>]
        ELSE IF user_id = admin_user_id THEN
            [roles |-> R, ret |-> <<FALSE, "You cannot demote yourself">>]
        ELSE IF Cardinality(list_admins(R, fault = "admins_read")) <= 1 THEN
            [roles |-> R, ret |-> <<FALSE, "Cannot demote the last admin. Promote another user first.">>]
        ELSE IF ~TruthyStr(user_email) THEN
            [roles |-> R, ret |-> <<FALSE, "User not found">>]
        ELSE IF set.ret THEN
            [roles |-> set.roles, ret |-> <<TRUE, "Successfully demoted " \o user_email[1] \o " to regular user">>]
        ELSE
            [roles |-> set.roles, ret |-> <<FALSE, "Failed to update user role">>]

\* A call promote_to_admin(client, user_id, admin_user_id).
PromoteToAdmin(user_id, admin_user_id, fault) ==
    LET run == promote_to_admin(auth.roles, user_id, admin_user_id, fault)
    IN  auth' = [roles |-> run.roles,
                 call |-> Some([op |-> "promote_to_admin", user_id |-> user_id, admin_user_id |-> admin_user_id,
                                ret |-> run.ret])]

\* A call demote_to_user(client, user_id, admin_user_id).
DemoteToUser(user_id, admin_user_id, fault) ==
    LET run == demote_to_user(auth.roles, user_id, admin_user_id, fault)
    IN  auth' = [roles |-> run.roles,
                 call |-> Some([op |-> "demote_to_user", user_id |-> user_id, admin_user_id |-> admin_user_id,
                                ret |-> run.ret])]

\* Every user has a role and at least one of them is an admin.
InitRoles ==
    /\ ClassifierIdle
    /\ ReconcilerIdle
    /\ BatchIdle
    /\ PreferencesIdle
    /\ inbox = NoInboxCall /\ sched = NoScheduler /\ runs = NoRuns
    /\ auth \in {[roles |-> R, call |-> None] : R \in {Q \in [RoleUsers -> {"user", "admin"}] : \E u \in RoleUsers : Q[u] = "admin"}}

NextRoles ==
    \/ \E u \in UserIds, a \in UserIds, f \in AuthFaults :
           PromoteToAdmin(u, a, f) /\ UNCHANGED <<clsVars, recVars, batch, access, inbox, sched, runs>>
    \/ \E u \in UserIds, a \in UserIds, f \in AuthFaults :
           DemoteToUser(u, a, f) /\ UNCHANGED <<clsVars, recVars, batch, access, inbox, sched, runs>>

SpecRoles == InitRoles /\ [][NextRoles]_vars

-----------------------------------------------------------------------------
(* scheduled_tasks.py: the global scheduler, and its specification *)

\* The times the two schedule functions are called with.
Hours == {8, 18}

Minutes == {0, 30}

DaysOfWeek == {"sun", "mon", "sat"}

Timezones == {"America/New_York", "UTC"}

\* BackgroundScheduler.add_job with an explicit id: a job of the same id is
\* replaced where it stands when replace_existing is set and the call raises
\* otherwise (the list of jobs stays as it was); a job of a new id is added.
add_job(jobs, job, replace_existing) ==
    IF \E i \in 1..Len(jobs) : jobs[i].id = job.id THEN
        IF replace_existing THEN [i \in 1..Len(jobs) |-> IF jobs[i].id = job.id THEN job ELSE jobs[i]]
        ELSE jobs
    ELSE Append(jobs, job)

\* TaskScheduler.schedule_daily_reminders (lines 30-53)
schedule_daily_reminders(jobs, hour, minute, timezone) ==
    add_job(jobs,
            [id |-> "daily_reminders", func |-> "_send_daily_reminders_to_all_users",
             name |-> "Send daily email reminders",
             trigger |-> [day_of_week |-> "*", hour |-> hour, minute |-> minute, timezone |-> timezone]],
            TRUE)

\* TaskScheduler.schedule_weekly_preview (lines 55-80)
schedule_weekly_preview(jobs, day_of_week, hour, minute, timezone) ==
    add_job(jobs,
            [id |-> "weekly_preview", func |-> "_send_weekly_preview_to_all_users",
             name |-> "Send weekly preview emails",
             trigger |-> [day_of_week |-> day_of_week, hour |-> hour, minute |-> minute, timezone |-> timezone]],
            TRUE)

\* Mutant: a TaskScheduler is made on every call.
init_scheduler_every_call(S, fails) ==
    IF fails THEN [S EXCEPT !.returned = None]
    ELSE [instance |-> Some(S.constructed + 1),
          constructed |-> S.constructed + 1,
          jobs |-> schedule_weekly_preview(schedule_daily_reminders(<<>>, 8, 0, "America/New_York"),
                                           "sun", 18, 0, "America/New_York"),
          returned |-> Some(S.constructed + 1)]

\* init_scheduler (lines 311-329).  With no instance yet a TaskScheduler is
\* made (24-28) and, unless that raises, kept in _scheduler and given the two
\* default jobs; the instance in _scheduler is returned.
init_scheduler(S, fails) ==
    IF S.instance = None THEN
        IF fails THEN [S EXCEPT !.returned = None]
        ELSE [instance |-> Some(S.constructed + 1),
              constructed |-> S.constructed + 1,
              jobs |-> schedule_weekly_preview(schedule_daily_reminders(<<>>, 8, 0, "America/New_York"),
                                               "sun", 18, 0, "America/New_York"),
              returned |-> Some(S.constructed + 1)]
    ELSE [S EXCEPT !.returned = S.instance]

\* A run of app.py reaches scheduled_tasks.init_scheduler(client) (app.py:781).
InitScheduler(fails) ==
    sched' = init_scheduler(sched, fails)

\* get_scheduler().schedule_daily_reminders(hour, minute, timezone)
ScheduleDailyReminders(hour, minute, timezone) ==
    /\ sched.instance # None
    /\ sched' = [sched EXCEPT !.jobs = schedule_daily_reminders(sched.jobs, hour, minute, timezone)]

\* get_scheduler().schedule_weekly_preview(day_of_week, hour, minute, timezone)
ScheduleWeeklyPreview(day_of_week, hour, minute, timezone) ==
    /\ sched.instance # None
    /\ sched' = [sched EXCEPT !.jobs = schedule_weekly_preview(sched.jobs, day_of_week, hour, minute, timezone)]

\* The module has been imported: _scheduler is None.
InitScheduled ==
    /\ ClassifierIdle
    /\ ReconcilerIdle
    /\ BatchIdle
    /\ PreferencesIdle
    /\ OthersIdle

NextScheduled ==
    \/ \E fails \in BOOLEAN :
           InitScheduler(fails) /\ UNCHANGED <<clsVars, recVars, batch, access, inbox, runs, auth>>
    \/ \E h \in Hours, m \in Minutes, tz \in Timezones :
           ScheduleDailyReminders(h, m, tz) /\ UNCHANGED <<clsVars, recVars, batch, access, inbox, runs, auth>>
    \/ \E d \in DaysOfWeek, h \in Hours, m \in Minutes, tz \in Timezones :
           ScheduleWeeklyPreview(d, h, m, tz) /\ UNCHANGED <<clsVars, recVars, batch, access, inbox, runs, auth>>

SpecScheduled == InitScheduled /\ [][NextScheduled]_vars

-----------------------------------------------------------------------------
(* Properties of the per-entry status check, checked under Spec *)

\* The latest run read a stored status and fetched one.
Compared == check.fetched # None /\ check.old # None

\* The latest run went through to its return statement.
Completed == check.ret # None

\* The fetched status differs from the stored one and is Ended or Canceled.
ChangedToTerminal ==
    /\ Compared
    /\ check.old[1] # check.fetched
    /\ check.fetched[1] \in {"Ended", "Canceled"}

\* C1: a run of update_show_status makes a create_notification call only if
\* the status it fetched differs from the stored status it read and is
\* "Ended" or "Canceled"; a run that reaches its return statement with such a
\* pair makes the call, every other run makes none.
C1_NotifyIffChangedToTerminal ==
    /\ check.calls # <<>> => ChangedToTerminal
    /\ Completed /\ ChangedToTerminal => Len(check.calls) = 1
    /\ Completed /\ ~ChangedToTerminal => check.calls = <<>>

C1_Witness ==
    /\ check.via = "direct"
    /\ check.old = Some(Some("Returning Series"))
    /\ check.fetched = Some("Canceled")
    /\ Len(check.calls) = 1

\* The step is a call of update_show_status of its own.
DirectCall == check'.via = "direct" /\ clock' = clock

\* C2: when update_show_status has returned S for an entry and the next
\* operation is a second call for the same entry to which TMDB answers S
\* again, the second call makes no create_notification call, inserts no
\* notification and sends no e-mail; after either call every row of the
\* entry holds show_status S, and the second call leaves last_status_check
\* at the time of the call.
C2_Idempotent ==
    [][
        /\ Completed =>
               \A r \in MatchingRows(shows, check.user_id, check.tmdb_id) :
                   r.show_status = check.ret /\ r.last_status_check # None
        /\ ( /\ Completed
             /\ DirectCall
             /\ check'.user_id = check.user_id
             /\ check'.tmdb_id = check.tmdb_id
             /\ check'.ret = check.ret )
           => /\ check'.calls = <<>>
              /\ notifs' = notifs
              /\ emails' = {}
              /\ \A r \in MatchingRows(shows', check.user_id, check.tmdb_id) :
                     r.show_status = check.ret /\ r.last_status_check = Some(clock')
    ]_vars

\* A second call has followed the one that announced the finale: the finale's
\* row is in the table, the call read "Ended", fetched "Ended", called nothing
\* and stamped both rows of the entry with the later time.
C2_Witness ==
    /\ check.via = "direct"
    /\ check.old = Some(Some("Ended"))
    /\ check.ret = Some("Ended")
    /\ check.calls = <<>>
    /\ clock > 0
    /\ \E i \in 1..Len(notifs) : notifs[i].notification_type = "series_finale"
    /\ Cardinality(MatchingRows(shows, check.user_id, check.tmdb_id)) = 2
    /\ \A r \in MatchingRows(shows, check.user_id, check.tmdb_id) :
           r.show_status = Some("Ended") /\ r.last_status_check = Some(clock)

\* The create_notification call for a finale or a cancellation of the
\* checked entry.
TerminalCall(notification_type) ==
    /\ Len(check.calls) = 1
    /\ check.calls[1].notification_type = notification_type
    /\ check.calls[1].user_id = check.user_id
    /\ check.calls[1].send_email = TRUE
    /\ check.calls[1].related_show_id = Some(check.tmdb_id)
    /\ check.calls[1].related_show_title = Some(Title(check.tmdb_id))

\* C3 as the claim states it: of the completed runs, those from a stored
\* "Returning Series" to "Ended" or "Canceled" make the one call, and a run
\* over any other pair of stored and fetched status makes none.
C3_AsStated ==
    Completed /\ check.old[1] # None =>
        IF check.old[1] = Some("Returning Series") /\ check.ret = Some("Ended") THEN TerminalCall("series_finale")
        ELSE IF check.old[1] = Some("Returning Series") /\ check.ret = Some("Canceled") THEN TerminalCall("series_cancelled")
        ELSE check.calls = <<>>

\* C3: a completed run whose fetched status is "Ended" and differs from the
\* stored value makes exactly one call, of type series_finale; one whose
\* fetched status is "Canceled" and differs makes exactly one, of type
\* series_cancelled; both with send_email true and the entry's tmdb id and
\* title; a run whose fetched status equals the stored one, or is neither
\* "Ended" nor "Canceled", makes none.
C3_TransitionDetection ==
    Completed =>
        IF check.old[1] # check.ret /\ check.ret = Some("Ended") THEN TerminalCall("series_finale")
        ELSE IF check.old[1] # check.ret /\ check.ret = Some("Canceled") THEN TerminalCall("series_cancelled")
        ELSE check.calls = <<>>

C3_Witness ==
    /\ Completed
    /\ check.old = Some(Some("Ended"))
    /\ check.ret = Some("Canceled")
    /\ TerminalCall("series_cancelled")

\* The step ran update_show_status, on its own or inside upsert_show, and
\* the run reached its return statement.
CompletedCall == check'.ret # None /\ clock' = clock

\* C12: when a run of update_show_status for an existing entry has returned
\* a status, every row of the entry holds in show_status the raw status TMDB
\* answered in that run, which is also the value returned, and in
\* last_status_check the time of the run, whether the status read before
\* was the same or another.
C12_WritesStatus ==
    [][ CompletedCall =>
            /\ check'.ret = Some(upstream[check'.tmdb_id])
            /\ check'.ret[1] \in Statuses
            /\ MatchingRows(shows', check'.user_id, check'.tmdb_id) # {}
            /\ \A r \in MatchingRows(shows', check'.user_id, check'.tmdb_id) :
                   r.show_status = check'.ret /\ r.last_status_check = Some(clock')
    ]_vars

\* A run that read the status it fetched, after the time has advanced: the
\* rows carry the later time.
C12_Witness ==
    /\ check.via = "direct"
    /\ check.old = Some(Some("Returning Series"))
    /\ check.ret = Some("Returning Series")
    /\ clock > 0
    /\ \A r \in MatchingRows(shows, check.user_id, check.tmdb_id) :
           r.show_status = Some("Returning Series") /\ r.last_status_check = Some(clock)

\* The step is a call of update_show_status of its own that returned None.
FailedCall == DirectCall /\ check'.ret = None

\* C17: a run of update_show_status whose fetch, read or write failed
\* returned None and made no create_notification call; a call of its own
\* that returns None leaves the rows, the notifications and the preferences
\* exactly as they were and sends no e-mail; and the completed call that
\* comes next for the entry reads a status the rows held before the failed
\* call and, when the fetched status differs from it and is "Ended" or
\* "Canceled", makes the one call.
C17_FailureLeavesStore ==
    [][ /\ check.ret = None => check.calls = <<>>
        /\ check'.ret = None => check'.calls = <<>>
        /\ FailedCall => /\ shows' = shows
                         /\ notifs' = notifs
                         /\ prefs' = prefs
                         /\ emails' = {}
        /\ ( /\ check.via = "direct"
             /\ check.ret = None
             /\ CompletedCall
             /\ check'.via = "direct"
             /\ check'.user_id = check.user_id
             /\ check'.tmdb_id = check.tmdb_id )
           => /\ check'.old[1] \in {r.show_status : r \in MatchingRows(shows, check.user_id, check.tmdb_id)}
              /\ (check'.old[1] # check'.ret /\ check'.ret[1] \in {"Ended", "Canceled"}) => Len(check'.calls) = 1
    ]_vars

\* TMDB says "Ended", the fetch of the check failed, and the row still holds
\* "Returning Series" with the time of the earlier check.
C17_Witness ==
    /\ check.via = "direct"
    /\ check.fetched = None
    /\ check.ret = None
    /\ upstream[check.tmdb_id] = "Ended"
    /\ clock > 0
    /\ MatchingRows(shows, check.user_id, check.tmdb_id) # {}
    /\ \A r \in MatchingRows(shows, check.user_id, check.tmdb_id) :
           r.show_status = Some("Returning Series") /\ r.last_status_check = Some(0)

\* The status a notification of the type tells of.
StatusOfType(notification_type) == IF notification_type = "series_finale" THEN "Ended" ELSE "Canceled"

\* The rows a step inserts into "notifications" that tell of an ended or a
\* canceled show.
NewTerminalRows ==
    {k \in (Len(notifs) + 1)..Len(notifs') : notifs'[k].notification_type \in {"series_finale", "series_cancelled"}}

\* C28: within one check the notification comes after the write.  Whenever a
\* step inserts a series_finale or series_cancelled notification, every row of
\* its user and show stores the status it tells of: no notification without
\* the status persisted.  And whenever a check went on to notify, it returns
\* the fetched status and the rows store it with the time of the check,
\* whether the notification could be created or not.
C28_NotifiesAfterWrite ==
    [][clock' = clock =>
           /\ \A k \in NewTerminalRows :
                  /\ MatchingRows(shows', notifs'[k].user_id, notifs'[k].related_show_id[1]) # {}
                  /\ \A r \in MatchingRows(shows', notifs'[k].user_id, notifs'[k].related_show_id[1]) :
                         r.show_status = Some(StatusOfType(notifs'[k].notification_type))
           /\ check'.calls # <<>> =>
                  /\ check'.ret # None
                  /\ check'.ret = check'.fetched
                  /\ \A r \in MatchingRows(shows', check'.user_id, check'.tmdb_id) :
                         r.show_status = check'.fetched /\ r.last_status_check = Some(clock)]_vars

\* A check found the show ended and could not create the notification: no
\* series_finale row exists, the check returned "Ended" and the rows store it.
C28_Witness ==
    /\ check.calls # <<>>
    /\ check.ret = Some("Ended")
    /\ \A k \in 1..Len(notifs) : notifs[k].notification_type # "series_finale"
    /\ MatchingRows(shows, check.user_id, check.tmdb_id) # {}
    /\ \A r \in MatchingRows(shows, check.user_id, check.tmdb_id) : r.show_status = Some("Ended")

-----------------------------------------------------------------------------
(* Properties of the watchlist, checked under SpecWatchlist *)

\* The (user, tmdb_id, provider_name) triple of a row.
Triple(r) == <<r.user_id, r.tmdb_id, r.provider_name>>

Triples(S) == {Triple(r) : r \in S}

\* C18: the watchlist never holds two rows with the same (user, tmdb_id,
\* provider_name); an operation adds at most one row, and only for a triple
\* that was not there, so adding a triple that is there rewrites its row in
\* place; the rows of other triples, the same show under another provider
\* or for another user among them, are not touched by the upsert itself.
C18_OneEntryPerTriple ==
    [][ /\ \A r1, r2 \in shows' : Triple(r1) = Triple(r2) => r1 = r2
        /\ Cardinality(shows') <= Cardinality(shows) + 1
        /\ Cardinality(shows') = Cardinality(shows) + 1 =>
               /\ Cardinality(Triples(shows')) = Cardinality(Triples(shows)) + 1
               /\ Triples(shows) \subseteq Triples(shows')
        /\ Cardinality(shows') = Cardinality(shows) =>
               /\ Triples(shows') = Triples(shows)
               /\ \A r \in shows, q \in shows' :
                      Triple(r) = Triple(q) => q = [r EXCEPT !.region = q.region]
    ]_vars

\* The show is on u1's list under both providers and on u2's list, u1's
\* Netflix entry with region GB and the Hulu entry with region US.
C18_Witness ==
    /\ Cardinality(shows) = 3
    /\ Triples(shows) = {<<"u1", 1396, "Netflix">>, <<"u1", 1396, "Hulu">>, <<"u2", 1396, "Netflix">>}
    /\ \E r \in shows : Triple(r) = <<"u1", 1396, "Netflix">> /\ r.region = "GB"
    /\ \E r \in shows : Triple(r) = <<"u1", 1396, "Hulu">> /\ r.region = "US"

\* The triples a step adds to the watchlist.
AddedTriples == Triples(shows') \ Triples(shows)

\* The notification notify_show_status_change(..., "added") inserts.
IsAddedNotification(row, user_id, tmdb_id) ==
    /\ row.user_id = user_id
    /\ row.notification_type = "status_change"
    /\ row.message = Title(tmdb_id) \o " has been added to your watchlist."
    /\ row.related_show_id = Some(tmdb_id)

\* C23: upsert_show makes the "added" notification and one status check
\* exactly for a new entry.  A step that adds a triple runs one status check
\* from upsert_show for that user and show, and what it inserts first is the
\* "added" notification (nothing is inserted when the insert fails); a step
\* that adds no triple runs no status check, inserts no notification and
\* leaves show_status and last_status_check of every row it keeps unchanged.
C23_CheckOnlyForNewEntry ==
    [][/\ \A t \in AddedTriples :
              /\ AddedTriples = {t}
              /\ check'.via = "upsert_show"
              /\ check'.user_id = t[1]
              /\ check'.tmdb_id = t[2]
              /\ Len(notifs') > Len(notifs) => IsAddedNotification(notifs'[Len(notifs) + 1], t[1], t[2])
       /\ AddedTriples = {} =>
              /\ check' = NoCheck
              /\ notifs' = notifs
              /\ \A r2 \in shows' : \E r \in shows :
                     /\ Triple(r) = Triple(r2)
                     /\ r.show_status = r2.show_status
                     /\ r.last_status_check = r2.last_status_check]_vars

\* A show has been added under a second provider from another region: the
\* check ran from upsert_show, the "added" notification is the latest but one
\* or the latest row, and the first provider's row is still there.
C23_Witness ==
    /\ check.via = "upsert_show"
    /\ check.ret = Some("Returning Series")
    /\ \E k \in 1..Len(notifs) : k >= 2 /\ IsAddedNotification(notifs[k], check.user_id, check.tmdb_id)
    /\ \E r, r2 \in shows :
           /\ r.user_id = check.user_id /\ r2.user_id = check.user_id
           /\ r.provider_name # r2.provider_name
           /\ r.region # r2.region

-----------------------------------------------------------------------------
(* Properties of the batch check, checked under SpecBatch *)

Returned == batch.pc = "done"

\* The iterations of the run whose check returned None.
FailedEntries == {k \in 1..Len(batch.log) : batch.log[k].ret = None}

\* C13 as stated: every summary check_all_shows_status returns satisfies
\* total = updated + unchanged + errors, on every path.
C13_AsStated ==
    Returned => batch.ret[1].total = batch.ret[1].updated + batch.ret[1].unchanged + batch.ret[1].errors

\* C14: the run checks the listed rows one after another in list order, each
\* once: what has been checked so far is always the listing up to the
\* current position, a check that returned None is followed by the check of
\* the next row, and a run whose listing succeeded has checked every listed
\* row when it returns; every iteration moves the position on by one row
\* and the iteration on the last row returns, so the run ends after as many
\* iterations as rows were listed.
C14_Safety ==
    /\ batch.pc = "loop" => batch.i = Len(batch.log) + 1 /\ batch.i <= Len(batch.data)
    /\ \A k \in 1..Len(batch.log) : batch.log[k].row = batch.data[k]
    /\ Returned => Len(batch.log) = Len(batch.data)
    /\ batch.pc # "idle" => batch.stats.total = Len(batch.data)
    /\ (Len(batch.log) > 0 /\ check.via = "check_all_shows_status") =>
           /\ check.user_id = batch.user_id
           /\ check.tmdb_id = batch.log[Len(batch.log)].row.tmdb_id
           /\ check.ret = batch.log[Len(batch.log)].ret

C14_EachEntryOnce ==
    [][ /\ C14_Safety
        /\ C14_Safety'
        /\ (batch.pc = "loop" /\ batch' # batch) =>
               /\ batch'.data = batch.data
               /\ batch'.i = batch.i + 1
               /\ Len(batch'.log) = Len(batch.log) + 1
               /\ Returned' <=> batch.i = Len(batch.data)
    ]_vars

\* The first row's check failed and the second row was checked all the same.
C14_Witness ==
    /\ Returned
    /\ Len(batch.data) = 2
    /\ Len(batch.log) = 2
    /\ batch.log[1].ret = None
    /\ batch.log[2].ret = Some("Ended")
    /\ batch.ret = Some([total |-> 2, updated |-> 1, unchanged |-> 0, errors |-> 1])

\* C15 as stated: a checked entry is counted under errors when its check
\* returned None, under updated when the status the check wrote differs from
\* the status the entry's row held right before the check, and under
\* unchanged otherwise.
C15_AsStated ==
    \A k \in 1..Len(batch.log) :
        batch.log[k].before # None =>
            batch.log[k].bucket = IF batch.log[k].ret = None THEN "errors"
                                  ELSE IF batch.log[k].ret # batch.log[k].before[1] THEN "updated"
                                  ELSE "unchanged"

\* C16: the call returns on every path, with a summary of four counts; its
\* errors count is the number of rows whose check returned None when the
\* listing succeeded, and 1 when the listing raised, so it is positive
\* whenever a row could not be checked or the batch could not run; a failing
\* notification insert is no failure of the check.
C16_AlwaysSummary ==
    /\ batch.pc = "loop" => batch.ret = None
    /\ Returned =>
           /\ batch.ret # None
           /\ batch.ret[1] \in [total : Nat, updated : Nat, unchanged : Nat, errors : Nat]
           /\ batch.raised => batch.ret[1].errors > 0
           /\ ~batch.raised => batch.ret[1].errors = Cardinality(FailedEntries)
           /\ FailedEntries # {} => batch.ret[1].errors > 0

\* The listing query raised and the call returned a summary with an error.
C16_Witness ==
    /\ Returned
    /\ batch.raised
    /\ batch.ret = Some([total |-> 0, updated |-> 0, unchanged |-> 0, errors |-> 1])

-----------------------------------------------------------------------------
(* Properties of the notification preferences, checked under SpecPreferences *)

\* The flag the user's stored row holds under a key of a type_mapping.
StoredFlag(P, user_id, key) == P[user_id] # None /\ key # None /\ P[user_id][1][key[1]]

\* C19, as the specification states it: delivery follows the recipient's
\* stored preferences.  Every e-mail a status check hands over belongs to a
\* create_notification call that asked for one and whose recipient's stored
\* e-mail flag for the type is on, and every notification row it inserts is of
\* a type whose stored in-app flag is on, a check during which the preferences
\* cannot be read included.  (The stored row is the one the check leaves: a
\* check creates the row of a user who had none and changes no existing row.)
C19_AsStated ==
    [][/\ \A e \in emails' : \E k \in 1..Len(check'.calls) :
              /\ e = [user_id |-> check'.calls[k].user_id, subject |-> "StreamGenie: " \o check'.calls[k].title]
              /\ check'.calls[k].send_email
              /\ StoredFlag(prefs', check'.calls[k].user_id, EmailPrefKey(check'.calls[k].notification_type))
       /\ \A k \in (Len(notifs) + 1)..Len(notifs') :
              StoredFlag(prefs', notifs'[k].user_id, InappPrefKey(notifs'[k].notification_type))]_vars

\* C20, as the specification states it: preferences are created lazily and
\* the stored row is what every later access returns.  An access for a user
\* without a row stores the defaults and returns them; an access for a user
\* with a row returns that row and stores nothing; and a stored row changes
\* only by its user's own update, into that row with the updates written in.
C20_AsStated ==
    [][/\ access'.op = "get_or_create_preferences" =>
              IF prefs[access'.user_id] = None
              THEN /\ prefs' = [prefs EXCEPT ![access'.user_id] = Some(DefaultPreferences)]
                   /\ access'.value = Some(DefaultPreferences)
              ELSE /\ prefs' = prefs
                   /\ access'.value = prefs[access'.user_id]
       /\ \A u \in Users :
              prefs[u] # None /\ prefs'[u] # prefs[u] =>
                  /\ access'.op = "update_preferences"
                  /\ access'.user_id = u
                  /\ prefs'[u] = Some(Merged(prefs[u][1], access'.updates[1]))]_vars

-----------------------------------------------------------------------------
(* Properties of the notification rows, checked under SpecNotifications *)

\* The row after is the row before marked read: is_read true, a read_at, and
\* every other column as it was.
MarkedRead(before, after) ==
    /\ after.is_read
    /\ "read_at" \in DOMAIN after
    /\ DOMAIN after = DOMAIN before \cup {"read_at"}
    /\ \A c \in DOMAIN before \ {"is_read", "read_at"} : after[c] = before[c]

\* C21: an existing notification row is changed only by the mark-read
\* operations and removed only by an explicit delete.  In every step, a
\* successful delete_notification apart, every row stays in its place and is
\* either unchanged or marked read (is_read true with a read_at, all other
\* columns unchanged), and then only by mark_notification_read of that row or
\* by mark_all_notifications_read of the row's own user while it was unread; a
\* read row never becomes unread.  A successful delete removes the row named
\* and nothing else.  Status checks, scheduled jobs and preference updates
\* only append rows.
C21_RowsChangeOnlyByMarkRead ==
    [][IF inbox'.op = "delete_notification" /\ inbox'.ret = Some(TRUE)
       THEN notifs' = SubSeq(notifs, 1, inbox'.notification_id - 1)
                      \o SubSeq(notifs, inbox'.notification_id + 1, Len(notifs))
       ELSE /\ Len(notifs') >= Len(notifs)
            /\ \A k \in 1..Len(notifs) :
                   \/ notifs'[k] = notifs[k]
                   \/ /\ MarkedRead(notifs[k], notifs'[k])
                      /\ inbox'.ret = Some(TRUE)
                      /\ \/ inbox'.op = "mark_notification_read" /\ inbox'.notification_id = k
                         \/ /\ inbox'.op = "mark_all_notifications_read"
                            /\ notifs[k].user_id = inbox'.user_id
                            /\ ~notifs[k].is_read]_vars

\* mark_all_notifications_read has marked its user's row and left another
\* user's unread row alone.
C21_Witness ==
    /\ inbox.op = "mark_all_notifications_read"
    /\ inbox.ret = Some(TRUE)
    /\ \E j, k \in 1..Len(notifs) :
           /\ notifs[j].user_id = inbox.user_id
           /\ notifs[j].is_read
           /\ "read_at" \in DOMAIN notifs[j]
           /\ notifs[k].user_id # inbox.user_id
           /\ ~notifs[k].is_read

\* C22, as the specification states it: each firing of a scheduled job runs
\* the status reconciliation for the watchlist entries.  When the daily or
\* the weekly job has fired, every watchlist row stores the status TMDB
\* answers for its show, as a status check leaves it.
C22_AsStated ==
    [][inbox'.op \in {"daily_reminders", "weekly_preview"} =>
           \A r \in shows' : r.show_status = Some(upstream'[r.tmdb_id])]_vars

-----------------------------------------------------------------------------
(* Properties of overlapping status checks, checked under SpecRuns *)

\* The series_finale and series_cancelled notifications of the entry's user
\* and show.
TerminalNotifications ==
    {k \in 1..Len(notifs) : /\ notifs[k].user_id = RunEntry[1]
                             /\ notifs[k].related_show_id = Some(RunEntry[2])
                             /\ notifs[k].notification_type \in {"series_finale", "series_cancelled"}}

\* C24, as the specification states it: exactly once under interleaving.
\* TMDB moves the show to Ended or Canceled once; however the reads, writes
\* and notification creations of the two runs interleave, the transition never
\* has more than one notification.
C24_AsStated == Cardinality(TerminalNotifications) <= 1

\* Both runs have fetched, read, written and returned.
BothFinished == \A p \in Procs : runs.proc[p].pc = "done" /\ runs.proc[p].ret # None

\* The status a run fetched.
Fetched(p) == runs.proc[p].status_info[1].status

\* The status the entry stores.
StoredStatus == (CHOOSE r \in shows : Triple(r) = RunEntry).show_status

\* C25: convergence of overlapping runs.  Once both runs have finished, the
\* stored show_status is the status the later of the two writes wrote, which
\* is a status one of the runs fetched; when both fetched the same status it
\* is that status.
C25_LastWriteWins ==
    BothFinished =>
        /\ Len(runs.writes) = 2
        /\ StoredStatus = Some(runs.writes[2].status)
        /\ StoredStatus \in {Some(Fetched(p)) : p \in Procs}
        /\ Fetched(1) = Fetched(2) => StoredStatus = Some(Fetched(1))

\* The run that fetched before TMDB's change wrote last: the entry stores
\* "Returning Series" while TMDB says the show has ended.
C25_Witness ==
    /\ BothFinished
    /\ Fetched(1) # Fetched(2)
    /\ StoredStatus = Some("Returning Series")
    /\ upstream[RunEntry[2]] = "Ended"
    /\ StoredStatus = Some(Fetched(runs.writes[2].proc))

-----------------------------------------------------------------------------
(* Properties of a show added under further providers, checked under        *)
(* SpecProviders                                                            *)

\* The series_finale notifications of the tracked user and show.
FinaleNotifications ==
    {k \in 1..Len(notifs) : /\ notifs[k].user_id = TrackedEntry[1]
                             /\ notifs[k].related_show_id = Some(TrackedEntry[2])
                             /\ notifs[k].notification_type = "series_finale"}

\* C26, as the specification states it: while TMDB's status of the show
\* stays "Ended", the user has at most one series_finale notification for it,
\* whatever per-entry checks, batch checks and additions under further
\* providers are made.
C26_AsStated == Cardinality(FinaleNotifications) <= 1

-----------------------------------------------------------------------------
(* Properties of what a status check writes, checked under SpecFrame *)

\* The row is one the completed check of this step was for.
CheckedBy(r) == r.user_id = check'.user_id /\ r.tmdb_id = check'.tmdb_id

-----------------------------------------------------------------------------
(* Properties of role changes, checked under SpecRoles *)

\* The admins of a users table.
Admins(R) == {u \in DOMAIN R : R[u] = "admin"}

\* The call of the step must be refused: the requester is not an admin, an
\* admin demotes themself, a demotion finds one admin or none, or the target
\* has no row.
MustRefuse(R, call) ==
    \/ call.admin_user_id \notin Admins(R)
    \/ call.op = "demote_to_user" /\ call.user_id = call.admin_user_id
    \/ call.op = "demote_to_user" /\ Cardinality(Admins(R)) <= 1
    \/ call.user_id \notin DOMAIN R

\* C29: role changes preserve an administrator.  After every promote_to_admin
\* and demote_to_user call at least one admin remains; a call that must be
\* refused returns failure and leaves every role as it was; and a call that
\* succeeds changes the role of its target only.
C29_AdminRemains ==
    [][/\ Admins(auth'.roles) # {}
       /\ auth'.call # None =>
              /\ MustRefuse(auth.roles, auth'.call[1]) =>
                     ~auth'.call[1].ret[1] /\ auth'.roles = auth.roles
              /\ ~auth'.call[1].ret[1] => auth'.roles = auth.roles
              /\ \A u \in DOMAIN auth.roles \ {auth'.call[1].user_id} : auth'.roles[u] = auth.roles[u]]_vars

\* An admin has demoted another admin and is the only one left.
C29_Witness ==
    /\ auth.call # None
    /\ auth.call[1].op = "demote_to_user"
    /\ auth.call[1].ret[1]
    /\ auth.roles[auth.call[1].user_id] = "user"
    /\ Admins(auth.roles) = {auth.call[1].admin_user_id}

-----------------------------------------------------------------------------
(* Properties of the global scheduler, checked under SpecScheduled *)

\* The ids of the registered jobs, in the order of the job list.
JobIds(jobs) == [i \in 1..Len(jobs) |-> jobs[i].id]

\* C30: the scheduler is a singleton with a fixed job set.  Every call of
\* init_scheduler that returns gives the one TaskScheduler ever made, which
\* stays in _scheduler from then on; while there is an instance its jobs are
\* exactly daily_reminders and weekly_preview, once each, so scheduling one of
\* them again replaces the job of that id.
C30_SingletonWithTwoJobs ==
    [][/\ sched'.returned # None => sched'.returned = sched'.instance
       /\ sched.instance # None => sched'.instance = sched.instance
       /\ sched'.instance # None =>
              /\ sched'.constructed = 1
              /\ JobIds(sched'.jobs) = <<"daily_reminders", "weekly_preview">>]_vars

\* init_scheduler has returned the instance whose daily job was scheduled
\* again for another time and is still one of two jobs.
C30_Witness ==
    /\ sched.returned # None
    /\ sched.returned = sched.instance
    /\ sched.constructed = 1
    /\ Len(sched.jobs) = 2
    /\ sched.jobs[1].trigger.hour = 18
    /\ sched.jobs[2].trigger.day_of_week = "mon"

-----------------------------------------------------------------------------
(* Properties of the classifier, checked under SpecClassify *)

Classified == result # None

Pair == <<result[1].category, result[1].confidence>>

NoAirDateAhead == ~HasScheduledEpisode(tmdb_data.next_episode_to_air)

HasLastAirDate == TruthyStr(tmdb_data.last_air_date)

\* delta.days of the parsed last_air_date on the day of the call.
DaysSinceLastAir == ToOrdinal(today) - ToOrdinal(StrpDate(tmdb_data.last_air_date[1])[1])

LastAirParses == HasLastAirDate /\ StrpDate(tmdb_data.last_air_date[1]) # None

\* C4: status "Ended" always classifies as ENDED/high and status "Canceled" as
\* CANCELED/high, whatever in_production, next_episode, last_air_date and
\* last_episode are: the first two rules win over every later one.
C4_EndedCanceledFirst ==
    Classified =>
        /\ tmdb_data.status = "Ended" => Pair = <<"ENDED", "high">>
        /\ tmdb_data.status = "Canceled" => Pair = <<"CANCELED", "high">>
        /\ tmdb_data.status \notin {"Ended", "Canceled"} => result[1].category \notin {"ENDED", "CANCELED"}

\* An Ended show in production with a dated next episode is still ENDED.
C4_Witness ==
    /\ Classified
    /\ tmdb_data.status = "Ended"
    /\ tmdb_data.in_production
    /\ HasScheduledEpisode(tmdb_data.next_episode_to_air)
    /\ tmdb_data.last_episode_to_air # None
    /\ Pair = <<"ENDED", "high">>

Categories == {"ENDED", "CANCELED", "SCHEDULED", "IN PRODUCTION", "RETURNING SOON", "UNCERTAIN", "ON HIATUS", "RENEWED", "PILOT", "LEGACY"}

Confidences == {"high", "medium", "low"}

EpisodeTag(e) == "S" \o FmtInt(Get(e, "season_number")) \o "E" \o FmtInt(Get(e, "episode_number"))

\* C6 as stated: a dated next episode of a show neither Ended nor Canceled
\* gives SCHEDULED/high with a message that contains the episode tag and the
\* air date string as supplied; without an air date the rule does not match.
C6_AsStated ==
    (Classified /\ tmdb_data.status \notin {"Ended", "Canceled"}) =>
        IF HasScheduledEpisode(tmdb_data.next_episode_to_air)
        THEN /\ Pair = <<"SCHEDULED", "high">>
             /\ Contains(result[1].message, EpisodeTag(tmdb_data.next_episode_to_air))
             /\ Contains(result[1].message, Get(tmdb_data.next_episode_to_air, "air_date")[1])
        ELSE result[1].category # "SCHEDULED"

\* C6 amended: the message contains the episode tag and the air date as
\* _format_date renders it: "March 01, 2025" for "2025-03-01" (the supplied
\* string is then not in the message), the supplied string when it is not a
\* %Y-%m-%d date.
C6_ScheduledFormatted ==
    (Classified /\ tmdb_data.status \notin {"Ended", "Canceled"}) =>
        IF HasScheduledEpisode(tmdb_data.next_episode_to_air)
        THEN LET e == tmdb_data.next_episode_to_air
                 a == Get(e, "air_date")[1]
             IN  /\ Pair = <<"SCHEDULED", "high">>
                 /\ Contains(result[1].message, EpisodeTag(e))
                 /\ a = "2025-03-01" => /\ Contains(result[1].message, "March 01, 2025")
                                        /\ ~Contains(result[1].message, "2025-03-01")
                 /\ a = "TBA" => Contains(result[1].message, "TBA")
                 /\ (Get(e, "season_number") = Some(4) /\ Get(e, "episode_number") = Some(1)) => Contains(result[1].message, "S4E1")
        ELSE result[1].category # "SCHEDULED"

C6_Witness ==
    /\ Classified
    /\ tmdb_data.status = "Returning Series"
    /\ tmdb_data.next_episode_to_air = Some([air_date |-> Some("2025-03-01"), season_number |-> Some(4), episode_number |-> Some(1)])
    /\ result[1].message = "Next episode: S4E1 on March 01, 2025"

\* C7: status "Returning Series" without a dated next episode: in production
\* gives IN PRODUCTION/high; otherwise RETURNING SOON/medium without a
\* last_air_date or under 1 year, UNCERTAIN/low from 1 to under 3 years,
\* ON HIATUS/low from 3 years on, years being days / 365.25; 400 days give
\* UNCERTAIN/low with needs_research.
C7_ReturningSeries ==
    (Classified /\ tmdb_data.status = "Returning Series" /\ NoAirDateAhead) =>
        IF tmdb_data.in_production THEN Pair = <<"IN PRODUCTION", "high">>
        ELSE IF ~LastAirParses THEN Pair = <<"RETURNING SOON", "medium">>
        ELSE /\ 4 * DaysSinceLastAir < YearQuarterDays => Pair = <<"RETURNING SOON", "medium">>
             /\ (4 * DaysSinceLastAir >= YearQuarterDays /\ 4 * DaysSinceLastAir < 3 * YearQuarterDays) => Pair = <<"UNCERTAIN", "low">>
             /\ 4 * DaysSinceLastAir >= 3 * YearQuarterDays => Pair = <<"ON HIATUS", "low">>
             /\ DaysSinceLastAir = 400 => Pair = <<"UNCERTAIN", "low">> /\ result[1].needs_research

C7_Witness ==
    /\ Classified
    /\ tmdb_data.status = "Returning Series"
    /\ ~tmdb_data.in_production
    /\ NoAirDateAhead
    /\ LastAirParses
    /\ DaysSinceLastAir = 400
    /\ Pair = <<"UNCERTAIN", "low">>
    /\ result[1].needs_research

\* C8: a status other than Ended, Canceled, Returning Series without a dated
\* next episode: in production gives IN PRODUCTION/medium, also for Planned
\* and Pilot; otherwise Planned gives RENEWED/medium and Pilot PILOT/high,
\* whatever last_air_date is.
C8_InProductionPlannedPilot ==
    (Classified /\ tmdb_data.status \notin {"Ended", "Canceled", "Returning Series"} /\ NoAirDateAhead) =>
        IF tmdb_data.in_production THEN Pair = <<"IN PRODUCTION", "medium">>
        ELSE /\ tmdb_data.status = "Planned" => Pair = <<"RENEWED", "medium">>
             /\ tmdb_data.status = "Pilot" => Pair = <<"PILOT", "high">>

C8_Witness ==
    /\ Classified
    /\ tmdb_data.status = "Planned"
    /\ tmdb_data.in_production
    /\ NoAirDateAhead
    /\ LastAirParses
    /\ 4 * DaysSinceLastAir > 10 * YearQuarterDays
    /\ Pair = <<"IN PRODUCTION", "medium">>

\* C9: when none of rules 1-8 matches, a last_air_date more than 10 years old
\* gives LEGACY/high, one 5 to 10 years old (both ends included) gives
\* ON HIATUS/medium, and anything else the fallback UNCERTAIN/low.
C9_OldShowOrFallback ==
    (Classified /\ tmdb_data.status \notin {"Ended", "Canceled", "Returning Series", "Planned", "Pilot"}
                /\ ~tmdb_data.in_production /\ NoAirDateAhead) =>
        IF LastAirParses /\ 4 * DaysSinceLastAir > 10 * YearQuarterDays THEN Pair = <<"LEGACY", "high">>
        ELSE IF LastAirParses /\ 4 * DaysSinceLastAir >= 5 * YearQuarterDays THEN Pair = <<"ON HIATUS", "medium">>
        ELSE result[1].category = "UNCERTAIN" /\ result[1].confidence = "low" /\ result[1].message = FallbackResult[3]

\* The day after 5 years have passed (1827 days): ON HIATUS/medium.
C9_Witness ==
    /\ Classified
    /\ tmdb_data.status = "Unknown"
    /\ ~tmdb_data.in_production
    /\ NoAirDateAhead
    /\ LastAirParses
    /\ DaysSinceLastAir = 1827
    /\ Pair = <<"ON HIATUS", "medium">>

\* C10: needs_research is true exactly when the confidence is low and the
\* category is neither ENDED nor CANCELED, that is exactly for UNCERTAIN/low
\* and ON HIATUS/low.
C10_NeedsResearch ==
    Classified =>
        /\ result[1].needs_research <=> (result[1].confidence = "low" /\ result[1].category \notin {"ENDED", "CANCELED"})
        /\ result[1].needs_research <=> (Pair \in {<<"UNCERTAIN", "low">>, <<"ON HIATUS", "low">>})

C10_Witness ==
    /\ Classified
    /\ Pair = <<"ON HIATUS", "low">>
    /\ result[1].needs_research
    /\ use_web_search

\* The raw status strings one of _categorize_status's tests names.
MappedStatuses == {"Ended", "Canceled", "Returning Series", "Planned", "Pilot"}

\* C11 as stated: every call with a status outside the mapped values returns
\* the fallback UNCERTAIN/low.
C11_AsStated ==
    (Classified /\ tmdb_data.status \notin MappedStatuses) => Pair = <<"UNCERTAIN", "low">>

\* C11: a call with a status outside the mapped values returns a result (it
\* does not raise), and the result is the fallback UNCERTAIN/low with the
\* fallback's message unless a rule that does not look at the status matches
\* first: a dated next episode gives SCHEDULED/high, in_production
\* IN PRODUCTION/medium, a last_air_date more than 10 years old LEGACY/high
\* and one more than 5 years old ON HIATUS/medium.
C11_UnmappedStatus ==
    (Classified /\ tmdb_data.status \notin MappedStatuses) =>
        IF HasScheduledEpisode(tmdb_data.next_episode_to_air) THEN Pair = <<"SCHEDULED", "high">>
        ELSE IF tmdb_data.in_production THEN Pair = <<"IN PRODUCTION", "medium">>
        ELSE IF LastAirParses /\ 4 * DaysSinceLastAir > 10 * YearQuarterDays THEN Pair = <<"LEGACY", "high">>
        ELSE IF LastAirParses /\ 4 * DaysSinceLastAir > 5 * YearQuarterDays THEN Pair = <<"ON HIATUS", "medium">>
        ELSE /\ Pair = <<"UNCERTAIN", "low">>
             /\ result[1].message = "Status uncertain. Check TMDB or search online for production news."
             /\ result[1].needs_research

\* An unmapped status with a last_air_date that is no date: the fallback.
C11_Witness ==
    /\ Classified
    /\ tmdb_data.status = "In Production"
    /\ ~tmdb_data.in_production
    /\ NoAirDateAhead
    /\ tmdb_data.last_air_date = Some("TBA")
    /\ Pair = <<"UNCERTAIN", "low">>

=============================================================================
